---- MODULE Spec2Model ----
(***************************************************************************)
(* A model of tviewyaml's reactive Context (template/context.go, listed in  *)
(* src/template/builtins.go from line 103 on) and of the background refresh *)
(* goroutine that AppBuilder.Build starts (src/builder.go).                 *)
(*                                                                         *)
(* Every Context method is split at its lock operations: one step acquires *)
(* c.mu, the next one runs the critical section and releases it.  User     *)
(* code (a bound view's Refresh and SetText, a subscriber, a form callback, *)
(* a template handler) is a callback that runs between those steps and may *)
(* call back into the Context or panic.                                    *)
(***************************************************************************)
EXTENDS Integers, Sequences, FiniteSets, TLC

\* Bounds of the model.
MaxViews == 2
MaxSubs == 1
MaxCalls == 2
MaxOps == 3
MaxSpans == 2

\* The longest payload handed to the parsers
MaxLen == 5

Keys == {"k1", "k2"}
Threads == {"ui", "worker", "bg"}
Callers == {"ui", "bg"}
FormNames == {"", "form"}
FormCallbacks == {"cb1", "cb2"}
Templates == {"noop", "unknownFn"}

----------------------------------------------------------------------------
\* Values held by the state map (interface{}); strings are sequences of characters.

Nil == [type |-> "nil"]

StringValue(s) == [type |-> "string", s |-> s]

IntValue(n) == [type |-> "int", n |-> n]

Values == {StringValue(<<"a">>), IntValue(17)}

Digits == <<"0", "1", "2", "3", "4", "5", "6", "7", "8", "9">>

RECURSIVE Itoa(_)
Itoa(n) == IF n < 10 THEN <<Digits[n + 1]>>
           ELSE Itoa(n \div 10) \o <<Digits[(n % 10) + 1]>>

\* fmt.Sprint of a stored value.
Sprint(v) == IF v.type = "string" THEN v.s ELSE Itoa(v.n)

\* The bindState evaluator applied to the result (v, ok) of GetState.
bindState(v) == IF v = Nil THEN <<>> ELSE Sprint(v)

\* A BoundView: which of its two funcs are non-nil.
BoundView(refresh, setText) == [Refresh |-> refresh, SetText |-> setText]

BoundViews == {BoundView(TRUE, TRUE), BoundView(FALSE, TRUE)}

----------------------------------------------------------------------------
\* Go strings, as sequences of one-character strings, and the functions of the
\* packages strings and regexp that the executor calls.

Open == <<"{", "{">>

Close == <<"}", "}">>

\* unicode.IsSpace on the characters of a template
IsSpace(c) == c \in {" ", "\t", "\n", "\r"}

\* The class \w of regexp
WordChars ==
    {"a", "b", "c", "d", "e", "f", "g", "h", "i", "j", "k", "l", "m", "n", "o", "p",
     "q", "r", "s", "t", "u", "v", "w", "x", "y", "z", "A", "B", "C", "D", "E", "F",
     "G", "H", "I", "J", "K", "L", "M", "N", "O", "P", "Q", "R", "S", "T", "U", "V",
     "W", "X", "Y", "Z", "0", "1", "2", "3", "4", "5", "6", "7", "8", "9", "_"}

RECURSIVE TrimLeft(_)
TrimLeft(s) == IF s # <<>> /\ IsSpace(Head(s)) THEN TrimLeft(Tail(s)) ELSE s

RECURSIVE TrimRight(_)
TrimRight(s) ==
    IF s # <<>> /\ IsSpace(s[Len(s)]) THEN TrimRight(SubSeq(s, 1, Len(s) - 1)) ELSE s

\* strings.TrimSpace
TrimSpace(s) == TrimRight(TrimLeft(s))

HasPrefix(s, prefix) == Len(s) >= Len(prefix) /\ SubSeq(s, 1, Len(prefix)) = prefix

HasSuffix(s, suffix) ==
    Len(s) >= Len(suffix) /\ SubSeq(s, Len(s) - Len(suffix) + 1, Len(s)) = suffix

\* strings.TrimPrefix
TrimPrefix(s, prefix) ==
    IF HasPrefix(s, prefix) THEN SubSeq(s, Len(prefix) + 1, Len(s)) ELSE s

\* strings.TrimSuffix
TrimSuffix(s, suffix) ==
    IF HasSuffix(s, suffix) THEN SubSeq(s, 1, Len(s) - Len(suffix)) ELSE s

\* strings.Index: the offset of the first occurrence of substr in s, -1 if none
Index(s, substr) ==
    LET at == {i \in 0..(Len(s) - Len(substr)) : SubSeq(s, i + 1, i + Len(substr)) = substr}
    IN  IF at = {} THEN -1 ELSE CHOOSE i \in at : \A j \in at : i <= j

\* s[from:] with a Go offset
SliceFrom(s, from) == SubSeq(s, from + 1, Len(s))

\* s[:to] with a Go offset
SliceTo(s, to) == SubSeq(s, 1, to)

RECURSIVE WordLen(_)
WordLen(s) == IF s # <<>> /\ Head(s) \in WordChars THEN 1 + WordLen(Tail(s)) ELSE 0

\* regexp.MustCompile(`^(\w+)\s*(.*)$`).FindStringSubmatch(expr): the whole match and
\* the two groups, or nothing when expr does not start with a word character or the
\* text after the name and the spaces holds a newline, which . does not match.
FindStringSubmatch(expr) ==
    LET n    == WordLen(expr)
        rest == TrimLeft(SliceFrom(expr, n))
    IN  IF n = 0 \/ \E i \in 1..Len(rest) : rest[i] = "\n"
        THEN <<>>
        ELSE <<expr, SliceTo(expr, n), rest>>

RECURSIVE FieldsFrom(_, _, _)
FieldsFrom(s, fields, current) ==
    IF s = <<>>
    THEN IF current = <<>> THEN fields ELSE Append(fields, current)
    ELSE IF IsSpace(Head(s))
         THEN FieldsFrom(Tail(s),
                         IF current = <<>> THEN fields ELSE Append(fields, current),
                         <<>>)
         ELSE FieldsFrom(Tail(s), fields, Append(current, Head(s)))

\* strings.Fields
Fields(s) == FieldsFrom(s, <<>>, <<>>)

RECURSIVE Join(_)
\* The concatenation of a sequence of strings (strings.Builder.WriteString in turn)
Join(parts) == IF parts = <<>> THEN <<>> ELSE Head(parts) \o Join(Tail(parts))

----------------------------------------------------------------------------
\* The parsers of the executor.

RECURSIVE parseArgumentsFrom(_, _, _, _, _)
parseArgumentsFrom(argsStr, args, current, inQuote, escaped) ==
    IF argsStr = <<>> THEN args
    ELSE LET ch   == Head(argsStr)
             rest == Tail(argsStr)
         IN  IF escaped
             THEN parseArgumentsFrom(rest, args, Append(current, ch), inQuote, FALSE)
             ELSE IF ch = "\\"
             THEN parseArgumentsFrom(rest, args, current, inQuote, TRUE)
             ELSE IF ch = "\""
             THEN IF inQuote
                  THEN parseArgumentsFrom(rest, Append(args, current), <<>>, FALSE, FALSE)
                  ELSE parseArgumentsFrom(rest, args, current, TRUE, FALSE)
             ELSE IF inQuote
             THEN parseArgumentsFrom(rest, args, Append(current, ch), inQuote, FALSE)
             ELSE parseArgumentsFrom(rest, args, current, inQuote, FALSE)

parseArguments_OrFields(argsStr) ==
    IF parseArgumentsFrom(argsStr, <<>>, <<>>, FALSE, FALSE) = <<>>
    THEN Fields(argsStr)
    ELSE parseArgumentsFrom(argsStr, <<>>, <<>>, FALSE, FALSE)

parseArguments(argsStr) == parseArgumentsFrom(argsStr, <<>>, <<>>, FALSE, FALSE)

parseEvaluatorExpr_FieldsOnly(e) ==
    LET matches == FindStringSubmatch(TrimSpace(e)) IN
    IF Len(matches) < 2 THEN [name |-> <<>>, args |-> <<>>]
    ELSE [name |-> matches[2], args |-> Fields(matches[3])]

parseEvaluatorExpr(e) ==
    LET expr    == TrimSpace(e)
        matches == FindStringSubmatch(expr)
    IN  IF expr = <<>> THEN [name |-> <<>>, args |-> <<>>]
        ELSE IF Len(matches) < 2 THEN [name |-> <<>>, args |-> <<>>]
        ELSE LET rest == TrimSpace(matches[3])
                 args == parseArguments(rest)
             IN  IF rest = <<>> THEN [name |-> matches[2], args |-> <<>>]
                 ELSE [name |-> matches[2],
                       args |-> IF Len(args) = 0 THEN Fields(rest) ELSE args]

RECURSIVE splitFrom(_, _)
splitFrom(s, parts) ==
    LET start == Index(s, Open) IN
    IF start < 0 THEN Append(parts, s)
    ELSE LET after == SliceFrom(s, start + 2)
             end   == Index(after, Close)
         IN  IF end < 0
             THEN Append(Append(parts, SliceTo(s, start)), Open \o after)
             ELSE splitFrom(SliceFrom(after, end + 2),
                            Append(Append(parts, SliceTo(s, start)), SliceTo(after, end)))

\* Even offsets are literal, odd offsets are expression content.
splitTemplateString(s) == splitFrom(s, <<>>)

----------------------------------------------------------------------------
\* The function registry (registry.go).

\* *int: nil, or a pointer to n
NilPtr == <<>>

intPtr(i) == <<i>>

\* "noop", "foo", "bindState", "unknownEval"
NoopName == <<"n", "o", "o", "p">>

FooName == <<"f", "o", "o">>

BindStateName == <<"b", "i", "n", "d", "S", "t", "a", "t", "e">>

UnknownName == <<"u", "n", "k", "n", "o", "w", "n", "E", "v", "a", "l">>

\* A handler as reflect sees it: a func with its parameter types, a value of
\* another kind, or nil.
Func(in) == [kind |-> "func", in |-> in]

NotFunc == [kind |-> "string"]

NilHandler == [kind |-> "nil"]

TemplateFunction(name, minArgs, maxArgs, validator, handler) ==
    [Name |-> name, MinArgs |-> minArgs, MaxArgs |-> maxArgs,
     Validator |-> validator, Handler |-> handler]

TemplateEvaluator(name, minArgs, maxArgs, handler) ==
    [Name |-> name, MinArgs |-> minArgs, MaxArgs |-> maxArgs, Handler |-> handler]

NoErr == [msg |-> "nil"]

\* The panic of a nil pointer dereference or of reflect.Value.Call
Panic(msg) == [msg |-> msg, panic |-> TRUE]

\* map[name] = d
Put(m, name, d) == [n \in DOMAIN m \cup {name} |-> IF n = name THEN d ELSE m[n]]

\* reflect.TypeOf(nil) is nil, and Kind() on it dereferences a nil pointer.
validateHandlerSignature(handler, maxArgs) ==
    IF handler.kind = "nil" THEN Panic("nil pointer dereference")
    ELSE IF handler.kind # "func" THEN [msg |-> "handler must be a function"]
    ELSE IF maxArgs # NilPtr
    THEN IF Len(handler.in) # maxArgs[1] + 1
         THEN [msg |-> "handler must have parameters", n |-> maxArgs[1] + 1]
         ELSE IF Len(handler.in) > 0 /\ handler.in[1] # "*Context"
         THEN [msg |-> "first parameter must be *Context"]
         ELSE IF \E i \in 2..Len(handler.in) : handler.in[i] # "string"
         THEN [msg |-> "parameter must be string"]
         ELSE NoErr
    ELSE IF Len(handler.in) # 2
         THEN [msg |-> "variadic handler must have 2 parameters"]
         ELSE IF handler.in[1] # "*Context"
         THEN [msg |-> "first parameter must be *Context"]
         ELSE IF handler.in[2] # "[]string"
         THEN [msg |-> "second parameter must be []string"]
         ELSE NoErr

Exists_Never(m, name) == FALSE

\* _, exists := map[name]
Exists(m, name) == name \in DOMAIN m

\* FunctionRegistry.Register on the map functions: the map afterwards and the error.
RegisterIn(functions, name, minArgs, maxArgs, validator, handler) ==
    IF minArgs < 0
    THEN [functions |-> functions, err |-> [msg |-> "minArgs must be non-negative"]]
    ELSE IF maxArgs # NilPtr /\ maxArgs[1] < minArgs
    THEN [functions |-> functions, err |-> [msg |-> "maxArgs must be >= minArgs"]]
    ELSE IF Exists(functions, name)
    THEN [functions |-> functions,
          err |-> [msg |-> "function is already registered", name |-> name]]
    ELSE LET err == validateHandlerSignature(handler, maxArgs) IN
         IF err # NoErr
         THEN [functions |-> functions,
               err |-> IF "panic" \in DOMAIN err THEN err
                       ELSE [msg |-> "invalid handler signature", name |-> name,
                             cause |-> err]]
         ELSE [functions |->
                   Put(functions, name,
                       TemplateFunction(name, minArgs, maxArgs, validator, handler)),
               err |-> NoErr]

\* FunctionRegistry.RegisterEvaluator on the map evaluators.
RegisterEvaluatorIn(evaluators, name, minArgs, maxArgs, handler) ==
    IF minArgs < 0 \/ maxArgs < minArgs
    THEN [evaluators |-> evaluators, err |-> [msg |-> "invalid evaluator args"]]
    ELSE IF Exists(evaluators, name)
    THEN [evaluators |-> evaluators,
          err |-> [msg |-> "evaluator is already registered", name |-> name]]
    ELSE [evaluators |->
              Put(evaluators, name, TemplateEvaluator(name, minArgs, maxArgs, handler)),
          err |-> NoErr]

\* The registry NewFunctionRegistry returns: the built-in evaluator bindState and,
\* of the built-in actions, noop.
NewFunctionRegistry ==
    [functions |->
         RegisterIn(<<>>, NoopName, 0, intPtr(0), FALSE, Func(<<"*Context">>)).functions,
     evaluators |->
         RegisterEvaluatorIn(<<>>, BindStateName, 1, 1, "bindState").evaluators]

----------------------------------------------------------------------------
\* The executor (executor.go).

\* fn, ok := r.functions[name] and ev, ok := r.evaluators[name]
Found(m, name) == name \in DOMAIN m

\* The key of the state map a string names
KeyOf(name) ==
    IF name = <<"k", "1">> THEN "k1" ELSE IF name = <<"k", "2">> THEN "k2" ELSE ""

\* What the handler of an evaluator returns: bindState of builtins.go, testEval and
\* testEvalNoArgs of executor_test.go.
EvaluatorHandler(handler, st, args) ==
    CASE handler = "bindState" ->
             bindState(IF KeyOf(args[1]) \in DOMAIN st THEN st[KeyOf(args[1])] ELSE Nil)
      [] handler = "testEval" -> <<"e", "v", "a", "l", ":">> \o args[1]
      [] handler = "testEvalNoArgs" -> <<"n", "o", "a", "r", "g", "s">>

WriteString_Reset(result, s) == s

\* result.WriteString(s)
WriteString(result, s) == result \o s

Abort_Partial(result, err, invoked) == [out |-> result, err |-> err, invoked |-> invoked]

\* return "", fmt.Errorf(...)
Abort(result, err, invoked) == [out |-> <<>>, err |-> err, invoked |-> invoked]

RECURSIVE evaluateParts(_, _, _, _, _, _)
evaluateParts(evs, st, parts, i, result, invoked) ==
    IF i >= Len(parts) THEN [out |-> result, err |-> NoErr, invoked |-> invoked]
    ELSE IF i % 2 = 0
    THEN evaluateParts(evs, st, parts, i + 1, WriteString(result, parts[i + 1]), invoked)
    ELSE LET expr == TrimSpace(parts[i + 1])
             p    == parseEvaluatorExpr(expr)
         IN  IF ~Found(evs, p.name)
             THEN Abort(result, [msg |-> "unknown evaluator", name |-> p.name], invoked)
             ELSE IF Len(p.args) < evs[p.name].MinArgs \/ Len(p.args) > evs[p.name].MaxArgs
             THEN Abort(result,
                        [msg |-> "evaluator expects args", name |-> p.name,
                         min |-> evs[p.name].MinArgs, max |-> evs[p.name].MaxArgs,
                         got |-> Len(p.args)],
                        invoked)
             ELSE evaluateParts(evs, st, parts, i + 1,
                                WriteString(result,
                                            EvaluatorHandler(evs[p.name].Handler, st,
                                                             p.args)),
                                Append(invoked, [kind |-> "evaluator", name |-> p.name,
                                                 args |-> p.args]))

evaluateTemplateString(evs, st, s) ==
    evaluateParts(evs, st, splitTemplateString(s), 0, <<>>, <<>>)

\* Executor.EvaluateToString: the string, the error, and the handlers it invoked.
EvaluateToStringOf(evs, st, templateStr) ==
    IF templateStr = <<>> THEN [out |-> <<>>, err |-> NoErr, invoked |-> <<>>]
    ELSE evaluateTemplateString(evs, st, templateStr)

NoCallback == [fn |-> "nil"]

\* func() {}
EmptyCallback == [fn |-> "func() {}"]

\* The closure createCallbackFromHandler returns
createCallbackFromHandler(fn, args) == [fn |-> fn, args |-> args]

\* len(args) < fn.MinArgs
TooFew(fn, args) == Len(args) < fn.MinArgs

TooMany_Never(fn, args) == FALSE

\* fn.MaxArgs != nil && len(args) > *fn.MaxArgs
TooMany(fn, args) == fn.MaxArgs # NilPtr /\ Len(args) > fn.MaxArgs[1]

\* Executor.parseAndCreateCallback: the callback, the error, and what it invoked;
\* verdict is what the validator returns if it is called.
parseAndCreateCallback(fs, expr, verdict) ==
    LET matches == FindStringSubmatch(expr) IN
    IF Len(matches) < 2
    THEN [callback |-> NoCallback, invoked |-> <<>>,
          err |-> [msg |-> "invalid template expression", expr |-> expr]]
    ELSE LET funcName == matches[2]
             argsStr  == TrimSpace(matches[3])
             args     == parseArguments(argsStr)
         IN  IF ~Found(fs, funcName)
             THEN [callback |-> NoCallback, invoked |-> <<>>,
                   err |-> [msg |-> "unknown function", name |-> funcName]]
             ELSE IF TooFew(fs[funcName], args)
             THEN [callback |-> NoCallback, invoked |-> <<>>,
                   err |-> [msg |-> "requires at least", name |-> funcName,
                            n |-> fs[funcName].MinArgs, got |-> Len(args)]]
             ELSE IF TooMany(fs[funcName], args)
             THEN [callback |-> NoCallback, invoked |-> <<>>,
                   err |-> [msg |-> "accepts at most", name |-> funcName,
                            n |-> fs[funcName].MaxArgs[1], got |-> Len(args)]]
             ELSE IF fs[funcName].Validator /\ verdict # "nil"
             THEN [callback |-> NoCallback,
                   invoked |-> <<[kind |-> "validator", name |-> funcName, args |-> args]>>,
                   err |-> [msg |-> "validation failed", name |-> funcName,
                            cause |-> verdict]]
             ELSE [callback |-> createCallbackFromHandler(fs[funcName], args),
                   invoked |-> IF fs[funcName].Validator
                               THEN <<[kind |-> "validator", name |-> funcName,
                                       args |-> args]>>
                               ELSE <<>>,
                   err |-> NoErr]

ExecuteCallbackOf_LastSpan(fs, templateStr, verdict) ==
    LET parts == splitTemplateString(templateStr) IN
    IF templateStr = <<>>
    THEN [callback |-> EmptyCallback, invoked |-> <<>>, err |-> NoErr]
    ELSE parseAndCreateCallback(
             fs, TrimSpace(parts[IF Len(parts) = 1 THEN 1 ELSE Len(parts) - 1]), verdict)

\* Executor.ExecuteCallback
ExecuteCallbackOf(fs, templateStr, verdict) ==
    IF templateStr = <<>>
    THEN [callback |-> EmptyCallback, invoked |-> <<>>, err |-> NoErr]
    ELSE parseAndCreateCallback(
             fs, TrimSpace(TrimSuffix(TrimPrefix(TrimSpace(templateStr), Open), Close)),
             verdict)

\* The arguments the callback passes to handlerValue.Call, by type
callArgs(fn, args) ==
    IF fn.MaxArgs # NilPtr
    THEN <<"*Context">> \o [i \in 1..Len(args) |-> "string"]
    ELSE <<"*Context", "[]string">>

HandlerCalls_Revalidate(fn, args) ==
    <<[kind |-> "validator", name |-> fn.Name, args |-> args],
      [kind |-> "handler", name |-> fn.Name, args |-> args]>>

\* What one call of the callback invokes: handlerValue.Call(callArgs)
HandlerCalls(fn, args) == <<[kind |-> "handler", name |-> fn.Name, args |-> args]>>

\* reflect.Value.Call panics unless the arguments are as many as the parameters of
\* the func and assignable to them.
CallPanics(handler, in) == handler.in # in

----------------------------------------------------------------------------
VARIABLES
    App,                  \* Context.App: "nil", "app", or "stopped" after Stop
    state,                \* Context.state
    subscribers,          \* Context.subscribers
    boundViews,           \* Context.boundViews
    dirtyKeys,            \* Context.dirtyKeys
    formSubmitCallbacks,  \* Context.formSubmitCallbacks
    formCancelCallbacks,  \* Context.formCancelCallbacks
    executor,             \* Context.executor # nil
    mu,                   \* Context.mu: the writer and the readers holding it
    updates,              \* tview.Application's queue of updates
    running,              \* the queued update the UI thread is executing
    done,                 \* threads whose queued update has been executed
    outer,                \* each thread's top-level call
    cb,                   \* each thread's running user callback
    inner,                \* each thread's call made from inside a callback
    result,               \* each thread's last returned value
    pass,                 \* locals of the running RefreshDirtyBoundViews
    log,                  \* callbacks invoked by the running pass, in order
    pending,              \* per key, the last values written since the last drain
    panicked,             \* the callback whose panic ended the process
    calls,                \* calls started by the application so far
    functions,            \* FunctionRegistry.functions
    evaluators,           \* FunctionRegistry.evaluators
    ret,                  \* the last call on the registry, the executor or the builder
    returned,             \* the callback the last ExecuteCallback returned
    trace,                \* validators and handlers invoked since that call began
    logged,               \* warnings WithTemplateFunction has logged
    built,                \* what Build has returned: "none" yet, "app" or "err"
    ops                   \* calls on the registry, the executor and the builder so far

ctxVars == <<state, subscribers, boundViews, dirtyKeys, formSubmitCallbacks,
             formCancelCallbacks, executor>>

vars == <<App, state, subscribers, boundViews, dirtyKeys, formSubmitCallbacks,
          formCancelCallbacks, executor, mu, updates, running, done, outer, cb,
          inner, result, pass, log, pending, panicked, calls,
         functions, evaluators, ret, returned, trace, logged, built, ops>>

regVars == <<functions, evaluators, ret, returned, trace, logged, built, ops>>

----------------------------------------------------------------------------
\* Frames: the position of a thread inside a call.

Idle == [op |-> "idle", stage |-> "idle"]

None == [op |-> "none", stage |-> "none"]

NoCb == [kind |-> "none"]

NoResult == [type |-> "none"]

NoUpdate == [f |-> "none"]

NoPanic == [kind |-> "none"]

EmptyPass == [keys |-> <<>>,
              viewsByKey |-> [k \in Keys |-> <<>>],
              subsByKey |-> [k \in Keys |-> <<>>],
              stateCopy |-> [k \in Keys |-> Nil],
              pending |-> [k \in Keys |-> <<>>],
              marked |-> {},
              ki |-> 1, phase |-> "views", idx |-> 1, step |-> "refresh",
              s |-> <<>>]

SetState(k, v) == [op |-> "SetState", stage |-> "Queue", key |-> k, value |-> v]

SetStateDirect_NoLock(k, v) ==
    [op |-> "SetStateDirect", stage |-> "Locked", key |-> k, value |-> v]

SetStateDirect(k, v) ==
    [op |-> "SetStateDirect", stage |-> "Lock", key |-> k, value |-> v]

setStateInternal(k, v) ==
    [op |-> "setStateInternal", stage |-> "Lock", key |-> k, value |-> v]

RegisterBoundView(k, bv) ==
    [op |-> "RegisterBoundView", stage |-> "Lock", key |-> k, bv |-> bv]

HasDirtyKeys == [op |-> "HasDirtyKeys", stage |-> "RLock"]

RefreshDirtyBoundViews == [op |-> "RefreshDirtyBoundViews", stage |-> "Lock"]

GetState(k) == [op |-> "GetState", stage |-> "RLock", key |-> k]

OnStateChange(k) == [op |-> "OnStateChange", stage |-> "Lock", key |-> k]

RegisterFormSubmit(name, callback) ==
    [op |-> "RegisterFormSubmit",
     stage |-> IF name = "" THEN "Return" ELSE "Lock",
     name |-> name, callback |-> callback]

RunFormSubmit(name) == [op |-> "RunFormSubmit", stage |-> "RLock", name |-> name]

RegisterFormCancel(name, callback) ==
    [op |-> "RegisterFormCancel",
     stage |-> IF name = "" THEN "Return" ELSE "Lock",
     name |-> name, callback |-> callback]

RunFormCancel(name) == [op |-> "RunFormCancel", stage |-> "RLock", name |-> name]

SetExecutor == [op |-> "SetExecutor", stage |-> "Lock"]

RunCallback(templateStr) ==
    [op |-> "RunCallback", stage |-> "RLock", templateStr |-> templateStr]

\* The goroutine of Build: blocked on the ticker, checking, or waiting for its update.
refreshLoop(stage) == [op |-> "refreshLoop", stage |-> stage]

\* The frame a thread is executing: the call made from its callback, if any.
Active(t) == IF inner[t] # None THEN inner[t] ELSE outer[t]

Goto(t, f) ==
    IF inner[t] # None
    THEN inner' = [inner EXCEPT ![t] = f] /\ UNCHANGED outer
    ELSE outer' = [outer EXCEPT ![t] = f] /\ UNCHANGED inner

AtStage(f, stage) == [f EXCEPT !.stage = stage]

Ret(t) ==
    IF inner[t] # None
    THEN inner' = [inner EXCEPT ![t] = None] /\ UNCHANGED outer
    ELSE outer' = [outer EXCEPT ![t] = Idle] /\ UNCHANGED inner

\* A value returned to the caller inside the same thread (dropped by a top-level call).
Returns(t, v) ==
    result' = [result EXCEPT ![t] = IF inner[t] # None THEN v ELSE NoResult]

Alive == panicked = NoPanic

\* Calls of op on key k that have not yet appended.
InFlight(op, k) ==
    Cardinality({t \in Threads : outer[t].op = op /\ outer[t].key = k})
    + Cardinality({t \in Threads : inner[t].op = op /\ inner[t].key = k})

----------------------------------------------------------------------------
\* The Context when the application starts: fresh from NewContext, without an
\* Application (as in the tests) or with one, or as Build leaves it for a
\* configuration with bound text views and a form (the pages built, the executor
\* set). Build has started the refresh goroutine whenever there is an Application.
Built ==
    {[App |-> "nil", boundViews |-> [k \in Keys |-> <<>>],
      subscribers |-> [k \in Keys |-> <<>>],
      formSubmitCallbacks |-> [n \in FormNames |-> "nil"],
      formCancelCallbacks |-> [n \in FormNames |-> "nil"],
      executor |-> FALSE],
     [App |-> "app", boundViews |-> [k \in Keys |-> <<>>],
      subscribers |-> [k \in Keys |-> <<>>],
      formSubmitCallbacks |-> [n \in FormNames |-> "nil"],
      formCancelCallbacks |-> [n \in FormNames |-> "nil"],
      executor |-> FALSE],
     [App |-> "app", boundViews |-> [k \in Keys |-> <<BoundView(TRUE, TRUE)>>],
      subscribers |-> [k \in Keys |-> IF k = "k1" THEN <<"fn">> ELSE <<>>],
      formSubmitCallbacks |-> [n \in FormNames |-> IF n = "form" THEN "cb1" ELSE "nil"],
      formCancelCallbacks |-> [n \in FormNames |-> IF n = "form" THEN "cb2" ELSE "nil"],
      executor |-> TRUE]}

\* The registry of NewAppBuilder, before any call on it.
RegistryInit ==
    /\ functions = NewFunctionRegistry.functions
    /\ evaluators = NewFunctionRegistry.evaluators
    /\ ret = [op |-> "none"]
    /\ returned = NoCallback
    /\ trace = <<>>
    /\ logged = 0
    /\ built = "none"
    /\ ops = 0

Init ==
    /\ RegistryInit
    /\ \E c \in Built :
          /\ App = c.App
          /\ boundViews = c.boundViews
          /\ subscribers = c.subscribers
          /\ formSubmitCallbacks = c.formSubmitCallbacks
          /\ formCancelCallbacks = c.formCancelCallbacks
          /\ executor = c.executor
    /\ state = [k \in Keys |-> Nil]
    /\ dirtyKeys = {}
    /\ mu = [w |-> "none", r |-> {}]
    /\ updates = <<>>
    /\ running = NoUpdate
    /\ done = {}
    /\ outer = [t \in Threads |->
                  IF t = "worker" /\ App = "app" THEN refreshLoop("tick") ELSE Idle]
    /\ cb = [t \in Threads |-> NoCb]
    /\ inner = [t \in Threads |-> None]
    /\ result = [t \in Threads |-> NoResult]
    /\ pass = EmptyPass
    /\ log = <<>>
    /\ pending = [k \in Keys |-> <<>>]
    /\ panicked = NoPanic
    /\ calls = 0

----------------------------------------------------------------------------
\* Calls a thread may start: an application goroutine, or a handler on the UI thread.

ApiCalls ==
    {SetState(k, v) : k \in Keys, v \in Values}
    \cup {SetStateDirect(k, v) : k \in Keys, v \in Values}
    \cup {GetState(k) : k \in Keys}
    \cup {HasDirtyKeys}
    \cup {RegisterBoundView(k, bv) :
            k \in {x \in Keys : Len(boundViews[x]) + InFlight("RegisterBoundView", x) < MaxViews},
            bv \in BoundViews}
    \cup {OnStateChange(k) :
            k \in {x \in Keys : Len(subscribers[x]) + InFlight("OnStateChange", x) < MaxSubs}}
    \cup {RegisterFormSubmit(n, c) : n \in FormNames, c \in FormCallbacks}
    \cup {RegisterFormCancel(n, c) : n \in FormNames, c \in FormCallbacks}
    \cup {RunFormSubmit(n) : n \in FormNames}
    \cup {RunFormCancel(n) : n \in FormNames}
    \cup (IF executor THEN {} ELSE {SetExecutor})
    \cup {RunCallback(x) : x \in Templates}

\* Calls user code makes from inside a callback.
NestedCalls ==
    {SetStateDirect(k, v) : k \in Keys, v \in Values}
    \cup {GetState(k) : k \in Keys}
    \cup {RegisterBoundView(k, bv) :
            k \in {x \in Keys : Len(boundViews[x]) + InFlight("RegisterBoundView", x) < MaxViews},
            bv \in BoundViews}
    \cup {OnStateChange(k) :
            k \in {x \in Keys : Len(subscribers[x]) + InFlight("OnStateChange", x) < MaxSubs}}
    \cup {RegisterFormSubmit(n, c) : n \in FormNames \ {""}, c \in FormCallbacks}

Call(t) ==
    /\ Alive
    /\ t \in Callers
    /\ outer[t] = Idle
    /\ t = "ui" => (App = "app" /\ running = NoUpdate)
    /\ calls < MaxCalls
    /\ calls' = calls + 1
    /\ \E f \in ApiCalls : outer' = [outer EXCEPT ![t] = f]
    /\ UNCHANGED <<App, regVars, ctxVars, mu, updates, running, done, cb, inner, result,
                   pass, log, pending, panicked>>

\* sync.RWMutex.Lock
Lock(t) ==
    /\ Alive
    /\ Active(t).stage = "Lock"
    /\ mu.w = "none" /\ mu.r = {}
    /\ mu' = [mu EXCEPT !.w = t]
    /\ Goto(t, AtStage(Active(t), "Locked"))
    /\ UNCHANGED <<App, regVars, ctxVars, updates, running, done, cb, result, pass, log,
                   pending, panicked, calls>>

\* sync.RWMutex.RLock
RLock(t) ==
    /\ Alive
    /\ Active(t).stage = "RLock"
    /\ mu.w = "none"
    /\ mu' = [mu EXCEPT !.r = @ \cup {t}]
    /\ Goto(t, AtStage(Active(t), "RLocked"))
    /\ UNCHANGED <<App, regVars, ctxVars, updates, running, done, cb, result, pass, log,
                   pending, panicked, calls>>

Unlock == [mu EXCEPT !.w = "none"]

RUnlock_Deferred(t) == mu

RUnlock(t) == [mu EXCEPT !.r = @ \ {t}]

\* The early return of RegisterFormSubmit and RegisterFormCancel on an empty name.
ReturnEarly(t) ==
    /\ Alive
    /\ Active(t).stage = "Return"
    /\ Ret(t)
    /\ UNCHANGED <<App, regVars, ctxVars, mu, updates, running, done, cb, result, pass, log,
                   pending, panicked, calls>>

Write_UnlessDirty(k, v) == IF k \in dirtyKeys THEN state ELSE [state EXCEPT ![k] = v]

\* c.state[key] = value
Write(k, v) == [state EXCEPT ![k] = v]

MarkDirty_Forgotten(k) == dirtyKeys

MarkDirty_LostInPass(k) ==
    IF outer["ui"].op = "RefreshDirtyBoundViews" THEN dirtyKeys ELSE dirtyKeys \cup {k}

MarkDirty_OneKey(k) == IF dirtyKeys = {} THEN {k} ELSE dirtyKeys

\* c.dirtyKeys[key] = true
MarkDirty(k) == dirtyKeys \cup {k}

\* The last two values written to a key since the last drain.
Last2(s) == IF Len(s) > 2 THEN SubSeq(s, 2, 3) ELSE s

\* Keys written from a callback of the running pass.
Marked(t, k) ==
    IF inner[t] # None /\ outer[t].op = "RefreshDirtyBoundViews"
    THEN [pass EXCEPT !.marked = @ \cup {k}]
    ELSE pass

SetStateQueue(t) ==
    /\ Alive
    /\ outer[t].op = "SetState" /\ outer[t].stage = "Queue"
    /\ IF App = "nil"
       THEN /\ outer' = [outer EXCEPT ![t] = Idle]
            /\ UNCHANGED updates
       ELSE /\ updates' = Append(updates, [f |-> "set", key |-> outer[t].key,
                                           value |-> outer[t].value, from |-> t])
            /\ outer' = [outer EXCEPT ![t] = AtStage(@, "Wait")]
    /\ UNCHANGED <<App, regVars, ctxVars, mu, running, done, cb, inner, result, pass, log,
                   pending, panicked, calls>>

Ran_NoWait(t) == TRUE

\* QueueUpdateDraw blocks its caller until the UI thread has run the update.
Ran(t) == t \in done

\* QueueUpdateDraw returns to SetState once the UI thread has run the update.
SetStateReturn(t) ==
    /\ Alive
    /\ outer[t].op = "SetState" /\ outer[t].stage = "Wait"
    /\ Ran(t)
    /\ done' = done \ {t}
    /\ outer' = [outer EXCEPT ![t] = Idle]
    /\ UNCHANGED <<App, regVars, ctxVars, mu, updates, running, cb, inner, result, pass, log,
                   pending, panicked, calls>>

SetStateDirectBody(t) ==
    /\ Alive
    /\ Active(t).op = "SetStateDirect" /\ Active(t).stage = "Locked"
    /\ LET f == Active(t) IN
         /\ state' = Write(f.key, f.value)
         /\ dirtyKeys' = MarkDirty(f.key)
         /\ pending' = [pending EXCEPT ![f.key] = Last2(Append(@, f.value))]
         /\ pass' = Marked(t, f.key)
    /\ mu' = Unlock
    /\ Ret(t)
    /\ UNCHANGED <<App, regVars, subscribers, boundViews, formSubmitCallbacks,
                   formCancelCallbacks, executor, updates, running, done, cb, result,
                   log, panicked, calls>>

setStateInternalBody(t) ==
    /\ Alive
    /\ Active(t).op = "setStateInternal" /\ Active(t).stage = "Locked"
    /\ LET f == Active(t) IN
         /\ state' = Write(f.key, f.value)
         /\ dirtyKeys' = MarkDirty(f.key)
         /\ pending' = [pending EXCEPT ![f.key] = Last2(Append(@, f.value))]
    /\ mu' = Unlock
    /\ Ret(t)
    /\ done' = done \cup {running.from}
    /\ running' = NoUpdate
    /\ UNCHANGED <<App, regVars, subscribers, boundViews, formSubmitCallbacks,
                   formCancelCallbacks, executor, updates, cb, result,
                   pass, log, panicked, calls>>

RegisterBoundViewBody(t) ==
    /\ Alive
    /\ Active(t).op = "RegisterBoundView" /\ Active(t).stage = "Locked"
    /\ boundViews' = [boundViews EXCEPT ![Active(t).key] = Append(@, Active(t).bv)]
    /\ mu' = Unlock
    /\ Ret(t)
    /\ UNCHANGED <<App, regVars, state, subscribers, dirtyKeys, formSubmitCallbacks,
                   formCancelCallbacks, executor, updates, running, done, cb, result,
                   pass, log, pending, panicked, calls>>

HasDirty_MoreThanOne == Cardinality(dirtyKeys) > 1

\* len(c.dirtyKeys) > 0
HasDirty == Cardinality(dirtyKeys) > 0

HasDirtyKeysBody(t) ==
    /\ Alive
    /\ Active(t).op = "HasDirtyKeys" /\ Active(t).stage = "RLocked"
    /\ Returns(t, [type |-> "bool", b |-> HasDirty])
    /\ mu' = RUnlock(t)
    /\ Ret(t)
    /\ UNCHANGED <<App, regVars, ctxVars, updates, running, done, cb, pass, log, pending,
                   panicked, calls>>

GetStateBody(t) ==
    /\ Alive
    /\ Active(t).op = "GetState" /\ Active(t).stage = "RLocked"
    /\ Returns(t, state[Active(t).key])
    /\ mu' = RUnlock(t)
    /\ Ret(t)
    /\ UNCHANGED <<App, regVars, ctxVars, updates, running, done, cb, pass, log, pending,
                   panicked, calls>>

OnStateChangeBody(t) ==
    /\ Alive
    /\ Active(t).op = "OnStateChange" /\ Active(t).stage = "Locked"
    /\ subscribers' = [subscribers EXCEPT ![Active(t).key] = Append(@, "fn")]
    /\ mu' = Unlock
    /\ Ret(t)
    /\ UNCHANGED <<App, regVars, state, boundViews, dirtyKeys, formSubmitCallbacks,
                   formCancelCallbacks, executor, updates, running, done, cb, result,
                   pass, log, pending, panicked, calls>>

Store_FirstWins(m, name, callback) ==
    IF m[name] # "nil" THEN m ELSE [m EXCEPT ![name] = callback]

\* c.formSubmitCallbacks[name] = callback, c.formCancelCallbacks[name] = callback
Store(m, name, callback) == [m EXCEPT ![name] = callback]

RegisterFormSubmitBody(t) ==
    /\ Alive
    /\ Active(t).op = "RegisterFormSubmit" /\ Active(t).stage = "Locked"
    /\ formSubmitCallbacks' =
           Store(formSubmitCallbacks, Active(t).name, Active(t).callback)
    /\ mu' = Unlock
    /\ Ret(t)
    /\ UNCHANGED <<App, regVars, state, subscribers, boundViews, dirtyKeys,
                   formCancelCallbacks, executor, updates, running, done, cb, result,
                   pass, log, pending, panicked, calls>>

RegisterFormCancelBody(t) ==
    /\ Alive
    /\ Active(t).op = "RegisterFormCancel" /\ Active(t).stage = "Locked"
    /\ formCancelCallbacks' =
           Store(formCancelCallbacks, Active(t).name, Active(t).callback)
    /\ mu' = Unlock
    /\ Ret(t)
    /\ UNCHANGED <<App, regVars, state, subscribers, boundViews, dirtyKeys,
                   formSubmitCallbacks, executor, updates, running, done, cb, result,
                   pass, log, pending, panicked, calls>>

\* The callback a thread starts to run; it returns through CallbackReturn.
Invoke(kind, x) == [kind |-> kind, stage |-> "body", of |-> x]

RunFormSubmitBody(t) ==
    /\ Alive
    /\ outer[t].op = "RunFormSubmit" /\ outer[t].stage = "RLocked"
    /\ mu' = RUnlock(t)
    /\ LET c == formSubmitCallbacks[outer[t].name] IN
         IF c # "nil"
         THEN /\ cb' = [cb EXCEPT ![t] = Invoke("FormSubmit", c)]
              /\ outer' = [outer EXCEPT ![t] = AtStage(@, "Call")]
         ELSE /\ outer' = [outer EXCEPT ![t] = Idle]
              /\ UNCHANGED cb
    /\ UNCHANGED <<App, regVars, ctxVars, updates, running, done, inner, result, pass, log,
                   pending, panicked, calls>>

RunFormCancelBody(t) ==
    /\ Alive
    /\ outer[t].op = "RunFormCancel" /\ outer[t].stage = "RLocked"
    /\ mu' = RUnlock(t)
    /\ LET c == formCancelCallbacks[outer[t].name] IN
         IF c # "nil"
         THEN /\ cb' = [cb EXCEPT ![t] = Invoke("FormCancel", c)]
              /\ outer' = [outer EXCEPT ![t] = AtStage(@, "Call")]
         ELSE /\ outer' = [outer EXCEPT ![t] = Idle]
              /\ UNCHANGED cb
    /\ UNCHANGED <<App, regVars, ctxVars, updates, running, done, inner, result, pass, log,
                   pending, panicked, calls>>

SetExecutorBody(t) ==
    /\ Alive
    /\ Active(t).op = "SetExecutor" /\ Active(t).stage = "Locked"
    /\ executor' = TRUE
    /\ mu' = Unlock
    /\ Ret(t)
    /\ UNCHANGED <<App, regVars, state, subscribers, boundViews, dirtyKeys,
                   formSubmitCallbacks, formCancelCallbacks, updates, running, done,
                   cb, result, pass, log, pending, panicked, calls>>

\* Whether ExecuteCallback returns a callback and no error for the expression.
ExecuteCallbackOk(templateStr) == templateStr = "noop"

RunCallbackBody(t) ==
    /\ Alive
    /\ outer[t].op = "RunCallback" /\ outer[t].stage = "RLocked"
    /\ mu' = RUnlock(t)
    /\ IF executor /\ ExecuteCallbackOk(outer[t].templateStr)
       THEN /\ cb' = [cb EXCEPT ![t] = Invoke("Handler", outer[t].templateStr)]
            /\ outer' = [outer EXCEPT ![t] = AtStage(@, "Call")]
       ELSE /\ outer' = [outer EXCEPT ![t] = Idle]
            /\ UNCHANGED cb
    /\ UNCHANGED <<App, regVars, ctxVars, updates, running, done, inner, result, pass, log,
                   pending, panicked, calls>>

----------------------------------------------------------------------------
\* RefreshDirtyBoundViews.

\* The orders in which `for k := range c.dirtyKeys` may visit the keys.
RangeOrders(S) ==
    {q \in [1..Cardinality(S) -> S] : \A i, j \in 1..Cardinality(S) : q[i] = q[j] => i = j}

ViewsOf_Live(p, k) == boundViews[k]

SubscriberArg_Live(p, k) == state[k]

\* range viewsByKey[k] and range subsByKey[k]: the loops read the copies.
ViewsOf(p, k) == p.viewsByKey[k]

SubsOf(p, k) == p.subsByKey[k]

\* The argument of fn(v): the value of the key in stateCopy.
SubscriberArg(p, k) == p.stateCopy[k]

\* The loops of lines 212-224 advanced to the next callback they invoke, past the
\* views with a nil func and the subscribers of a key absent from stateCopy.
RECURSIVE Norm(_)
Norm(p) ==
    IF p.ki > Len(p.keys) THEN p
    ELSE LET k == p.keys[p.ki] IN
         IF p.phase = "views"
         THEN IF p.idx > Len(ViewsOf(p, k))
              THEN Norm([p EXCEPT !.phase = "subs", !.idx = 1])
              ELSE IF ViewsOf(p, k)[p.idx].Refresh /\ ViewsOf(p, k)[p.idx].SetText
                   THEN p
                   ELSE Norm([p EXCEPT !.idx = @ + 1])
         ELSE IF p.idx > Len(SubsOf(p, k))
              THEN Norm([p EXCEPT !.ki = @ + 1, !.phase = "views", !.idx = 1])
              ELSE IF p.stateCopy[k] # Nil
                   THEN p
                   ELSE Norm([p EXCEPT !.idx = @ + 1])

\* Lines 196-210: the snapshot taken under the lock.
Snapshot(keys) ==
    [EmptyPass EXCEPT
        !.keys = keys,
        !.viewsByKey = [k \in Keys |-> IF k \in dirtyKeys THEN boundViews[k] ELSE <<>>],
        !.subsByKey = [k \in Keys |-> IF k \in dirtyKeys THEN subscribers[k] ELSE <<>>],
        !.stateCopy = state,
        !.pending = pending]

RefreshDrain(t) ==
    /\ Alive
    /\ outer[t].op = "RefreshDirtyBoundViews" /\ outer[t].stage = "Locked"
    /\ \E keys \in RangeOrders(dirtyKeys) : pass' = Norm(Snapshot(keys))
    /\ dirtyKeys' = {}
    /\ pending' = [k \in Keys |-> <<>>]
    /\ log' = <<>>
    /\ mu' = Unlock
    /\ outer' = [outer EXCEPT ![t] = AtStage(@, "Loop")]
    /\ UNCHANGED <<App, regVars, state, subscribers, boundViews, formSubmitCallbacks,
                   formCancelCallbacks, executor, updates, running, done, cb, inner,
                   result, panicked, calls>>

InLoop(t) ==
    /\ Alive
    /\ outer[t].op = "RefreshDirtyBoundViews" /\ outer[t].stage = "Loop"
    /\ cb[t] = NoCb

\* s := bv.Refresh()
RefreshInvokeRefresh(t) ==
    /\ InLoop(t)
    /\ pass.ki <= Len(pass.keys) /\ pass.phase = "views" /\ pass.step = "refresh"
    /\ LET k == pass.keys[pass.ki] IN
         /\ cb' = [cb EXCEPT ![t] = Invoke("Refresh", k)]
         /\ log' = Append(log, [ev |-> "Refresh", key |-> k, idx |-> pass.idx])
    /\ pass' = [pass EXCEPT !.step = "settext"]
    /\ UNCHANGED <<App, regVars, ctxVars, mu, updates, running, done, outer, inner, result,
                   pending, panicked, calls>>

\* bv.SetText(s)
RefreshInvokeSetText(t) ==
    /\ InLoop(t)
    /\ pass.ki <= Len(pass.keys) /\ pass.phase = "views" /\ pass.step = "settext"
    /\ LET k == pass.keys[pass.ki] IN
         /\ cb' = [cb EXCEPT ![t] = Invoke("SetText", k)]
         /\ log' = Append(log, [ev |-> "SetText", key |-> k, idx |-> pass.idx,
                                s |-> pass.s])
    /\ pass' = Norm([pass EXCEPT !.step = "refresh", !.idx = @ + 1, !.s = <<>>])
    /\ UNCHANGED <<App, regVars, ctxVars, mu, updates, running, done, outer, inner, result,
                   pending, panicked, calls>>

\* fn(v)
RefreshInvokeSubscriber(t) ==
    /\ InLoop(t)
    /\ pass.ki <= Len(pass.keys) /\ pass.phase = "subs"
    /\ LET k == pass.keys[pass.ki] IN
         /\ cb' = [cb EXCEPT ![t] = Invoke("Subscriber", k)]
         /\ log' = Append(log, [ev |-> "Subscriber", key |-> k, idx |-> pass.idx,
                                v |-> SubscriberArg(pass, k)])
    /\ pass' = Norm([pass EXCEPT !.idx = @ + 1])
    /\ UNCHANGED <<App, regVars, ctxVars, mu, updates, running, done, outer, inner, result,
                   pending, panicked, calls>>

\* The pass has run its loops and is about to return.
Returning(t) == InLoop(t) /\ pass.ki > Len(pass.keys)

RefreshReturn(t) ==
    /\ Returning(t)
    /\ outer' = [outer EXCEPT ![t] = Idle]
    /\ pass' = EmptyPass
    /\ log' = <<>>
    /\ done' = done \cup {running.from}
    /\ running' = NoUpdate
    /\ UNCHANGED <<App, regVars, ctxVars, mu, updates, cb, inner, result, pending, panicked,
                   calls>>

----------------------------------------------------------------------------
\* User code: a callback calls into the Context, panics, or does neither and returns.

CallbackNested(t) ==
    /\ Alive
    /\ cb[t] # NoCb /\ cb[t].stage = "body"
    /\ calls < MaxCalls
    /\ calls' = calls + 1
    /\ \E f \in NestedCalls : inner' = [inner EXCEPT ![t] = f]
    /\ cb' = [cb EXCEPT ![t].stage = "after"]
    /\ UNCHANGED <<App, regVars, ctxVars, mu, updates, running, done, outer, result, pass, log,
                   pending, panicked>>

\* An unrecovered panic ends the process: no method of the Context recovers.
CallbackPanic(t) ==
    /\ Alive
    /\ cb[t] # NoCb /\ cb[t].stage = "body"
    /\ panicked' = [kind |-> cb[t].kind, of |-> cb[t].of, thread |-> t]
    /\ UNCHANGED <<App, regVars, ctxVars, mu, updates, running, done, outer, cb, inner, result,
                   pass, log, pending, calls>>

\* The Refresh of a bound view evaluates its template: bindState calls GetState.
RefreshEvaluate(t) ==
    /\ Alive
    /\ cb[t].kind = "Refresh" /\ cb[t].stage \in {"body", "after"}
    /\ inner[t] = None
    /\ inner' = [inner EXCEPT ![t] = GetState(cb[t].of)]
    /\ cb' = [cb EXCEPT ![t].stage = "read"]
    /\ UNCHANGED <<App, regVars, ctxVars, mu, updates, running, done, outer, result, pass, log,
                   pending, panicked, calls>>

\* The callback returns to RefreshDirtyBoundViews, or to RunFormSubmit, RunFormCancel
\* or RunCallback, which return in turn.
CallbackReturn(t) ==
    /\ Alive
    /\ cb[t] # NoCb
    /\ inner[t] = None
    /\ IF cb[t].kind = "Refresh" THEN cb[t].stage = "read"
       ELSE cb[t].stage \in {"body", "after"}
    /\ cb' = [cb EXCEPT ![t] = NoCb]
    /\ pass' = IF cb[t].kind = "Refresh" THEN [pass EXCEPT !.s = bindState(result[t])]
               ELSE pass
    /\ result' = [result EXCEPT ![t] = NoResult]
    /\ outer' = IF outer[t].stage = "Call" THEN [outer EXCEPT ![t] = Idle] ELSE outer
    /\ UNCHANGED <<App, regVars, ctxVars, mu, updates, running, done, inner, log, pending,
                   panicked, calls>>

----------------------------------------------------------------------------
\* The UI thread's event loop (tview.Application.Run) and QueueUpdateDraw.

Dequeue ==
    /\ Alive
    /\ App = "app"
    /\ outer["ui"] = Idle /\ running = NoUpdate
    /\ updates # <<>>
    /\ running' = Head(updates)
    /\ updates' = Tail(updates)
    /\ outer' = [outer EXCEPT !["ui"] =
                    IF Head(updates).f = "refresh" THEN RefreshDirtyBoundViews
                    ELSE setStateInternal(Head(updates).key, Head(updates).value)]
    /\ UNCHANGED <<App, regVars, ctxVars, mu, done, cb, inner, result, pass, log, pending,
                   panicked, calls>>

----------------------------------------------------------------------------
\* The background goroutine of Build.

\* A tick arrives and the goroutine enters HasDirtyKeys.
WorkerTick ==
    /\ Alive
    /\ outer["worker"] = refreshLoop("tick")
    /\ mu.w = "none"
    /\ mu' = [mu EXCEPT !.r = @ \cup {"worker"}]
    /\ outer' = [outer EXCEPT !["worker"] = refreshLoop("check")]
    /\ inner' = [inner EXCEPT !["worker"] = AtStage(HasDirtyKeys, "RLocked")]
    /\ UNCHANGED <<App, regVars, ctxVars, updates, running, done, cb, result, pass, log,
                   pending, panicked, calls>>

WorkerCheck ==
    /\ Alive
    /\ outer["worker"] = refreshLoop("check") /\ inner["worker"] = None
    /\ IF result["worker"].b
       THEN /\ updates' = Append(updates, [f |-> "refresh", from |-> "worker"])
            /\ outer' = [outer EXCEPT !["worker"] = refreshLoop("wait")]
       ELSE /\ outer' = [outer EXCEPT !["worker"] = refreshLoop("tick")]
            /\ UNCHANGED updates
    /\ result' = [result EXCEPT !["worker"] = NoResult]
    /\ UNCHANGED <<App, regVars, ctxVars, mu, running, done, cb, inner, pass, log, pending,
                   panicked, calls>>

WorkerWake ==
    /\ Alive
    /\ outer["worker"] = refreshLoop("wait")
    /\ Ran("worker")
    /\ done' = done \ {"worker"}
    /\ outer' = [outer EXCEPT !["worker"] = refreshLoop("tick")]
    /\ UNCHANGED <<App, regVars, ctxVars, mu, updates, running, cb, inner, result, pass, log,
                   pending, panicked, calls>>

----------------------------------------------------------------------------
Next ==
    \/ \E t \in Threads :
        \/ Call(t)
        \/ Lock(t)
        \/ RLock(t)
        \/ ReturnEarly(t)
        \/ SetStateQueue(t)
        \/ SetStateReturn(t)
        \/ SetStateDirectBody(t)
        \/ setStateInternalBody(t)
        \/ RegisterBoundViewBody(t)
        \/ HasDirtyKeysBody(t)
        \/ GetStateBody(t)
        \/ OnStateChangeBody(t)
        \/ RegisterFormSubmitBody(t)
        \/ RegisterFormCancelBody(t)
        \/ RunFormSubmitBody(t)
        \/ RunFormCancelBody(t)
        \/ SetExecutorBody(t)
        \/ RunCallbackBody(t)
        \/ RefreshDrain(t)
        \/ RefreshInvokeRefresh(t)
        \/ RefreshInvokeSetText(t)
        \/ RefreshInvokeSubscriber(t)
        \/ RefreshReturn(t)
        \/ CallbackNested(t)
        \/ CallbackPanic(t)
        \/ RefreshEvaluate(t)
        \/ CallbackReturn(t)
    \/ Dequeue
    \/ WorkerTick
    \/ WorkerCheck
    \/ WorkerWake

Spec == Init /\ [][Next]_vars

\* The handler of stopApp: ctx.App.Stop() ends the event loop of the UI thread;
\* the background goroutine of Build is not told.
StopApp ==
    /\ Alive
    /\ App = "app"
    /\ App' = "stopped"
    /\ UNCHANGED <<regVars, ctxVars, mu, updates, running, done, outer, cb, inner, result,
                   pass, log, pending, panicked, calls>>

\* The Context, the UI loop and the background goroutine of an application that
\* may be stopped.
StopSpec == Init /\ [][Next \/ StopApp]_vars

\* The steps a scheduled thread takes by itself: all but those that the application
\* or user code chooses to take (a new call, a call from a callback, a panic).
Progress(t) ==
    \/ Lock(t) \/ RLock(t) \/ ReturnEarly(t) \/ SetStateQueue(t) \/ SetStateReturn(t)
    \/ SetStateDirectBody(t) \/ setStateInternalBody(t) \/ RegisterBoundViewBody(t)
    \/ HasDirtyKeysBody(t) \/ GetStateBody(t) \/ OnStateChangeBody(t)
    \/ RegisterFormSubmitBody(t) \/ RegisterFormCancelBody(t) \/ RunFormSubmitBody(t)
    \/ RunFormCancelBody(t) \/ SetExecutorBody(t) \/ RunCallbackBody(t)
    \/ RefreshDrain(t) \/ RefreshInvokeRefresh(t) \/ RefreshInvokeSetText(t)
    \/ RefreshInvokeSubscriber(t) \/ RefreshReturn(t) \/ RefreshEvaluate(t)
    \/ CallbackReturn(t)
    \/ (t = "ui" /\ Dequeue)
    \/ (t = "worker" /\ (WorkerTick \/ WorkerCheck \/ WorkerWake))

\* Every thread is scheduled; a pending Lock keeps new readers out (sync.RWMutex),
\* so a writer is not starved by the readers that come and go.
FairSpec ==
    /\ Spec
    /\ \A t \in Threads : WF_vars(Progress(t)) /\ SF_vars(Lock(t))

----------------------------------------------------------------------------
\* The registry, the executor and the builder, called by one goroutine on a Context
\* that nothing else touches.

contextVars == <<App, state, subscribers, boundViews, dirtyKeys, formSubmitCallbacks,
                 formCancelCallbacks, executor, mu, updates, running, done, outer, cb,
                 inner, result, pass, log, pending, calls>>

\* The registry as newTestRegistry of executor_test.go leaves it, with one action
\* that has a validator and one evaluator besides the built-in ones, both named foo.
newTestRegistry ==
    [functions |->
         RegisterIn(NewFunctionRegistry.functions, FooName, 1, intPtr(1), TRUE,
                    Func(<<"*Context", "string">>)).functions,
     evaluators |->
         RegisterEvaluatorIn(NewFunctionRegistry.evaluators, FooName, 1, 1,
                             "testEval").evaluators]

ExecInit ==
    /\ \E r \in {NewFunctionRegistry, newTestRegistry} :
          functions = r.functions /\ evaluators = r.evaluators
    /\ ret = [op |-> "none"]
    /\ returned = NoCallback
    /\ trace = <<>>
    /\ logged = 0
    /\ built = "none"
    /\ ops = 0
    /\ App = "nil"
    /\ boundViews = [k \in Keys |-> <<>>]
    /\ subscribers = [k \in Keys |-> <<>>]
    /\ formSubmitCallbacks = [n \in FormNames |-> "nil"]
    /\ formCancelCallbacks = [n \in FormNames |-> "nil"]
    /\ executor = TRUE
    /\ state = [k \in Keys |-> IF k = "k1" THEN StringValue(<<"v">>) ELSE Nil]
    /\ dirtyKeys = {}
    /\ mu = [w |-> "none", r |-> {}]
    /\ updates = <<>>
    /\ running = NoUpdate
    /\ done = {}
    /\ outer = [t \in Threads |-> Idle]
    /\ cb = [t \in Threads |-> NoCb]
    /\ inner = [t \in Threads |-> None]
    /\ result = [t \in Threads |-> NoResult]
    /\ pass = EmptyPass
    /\ log = <<>>
    /\ pending = [k \in Keys |-> <<>>]
    /\ panicked = NoPanic
    /\ calls = 0

\* The arguments the application registers actions and evaluators with.
Handlers ==
    {Func(<<"*Context">>), Func(<<"*Context", "string">>),
     Func(<<"*Context", "string", "string">>), Func(<<"*Context", "[]string">>),
     Func(<<"string">>), NotFunc, NilHandler}

\* minArgs and maxArgs: negative, variadic, equal, maxArgs below minArgs, a range
Arities ==
    {<<-1, intPtr(0)>>, <<0, NilPtr>>, <<0, intPtr(0)>>, <<1, intPtr(0)>>,
     <<1, intPtr(1)>>, <<1, intPtr(2)>>, <<1, NilPtr>>}

RegisterInput(name, arity, validator, handler) ==
    [name |-> name, minArgs |-> arity[1], maxArgs |-> arity[2],
     validator |-> validator, handler |-> handler]

RegisterInputs ==
    {RegisterInput(FooName, a, v, h) : a \in Arities, v \in BOOLEAN, h \in Handlers}
    \cup {RegisterInput(NoopName, <<0, intPtr(0)>>, FALSE, Func(<<"*Context">>)),
          RegisterInput(NoopName, <<1, NilPtr>>, TRUE, Func(<<"*Context", "[]string">>))}

BuilderInputs ==
    {RegisterInput(n, a, FALSE, h) :
        n \in {NoopName, FooName}, a \in {<<0, NilPtr>>, <<0, intPtr(0)>>},
        h \in {Func(<<"*Context">>), NotFunc}}

EvaluatorInputs ==
    {[name |-> n, minArgs |-> a[1], maxArgs |-> a[2], handler |-> a[3]] :
        n \in {BindStateName, FooName},
        a \in {<<-1, 0, "testEvalNoArgs">>, <<1, 0, "testEval">>,
               <<0, 0, "testEvalNoArgs">>, <<0, 1, "testEvalNoArgs">>,
               <<1, 1, "testEval">>}}

\* What a validator may return
Verdicts == {"nil", "invalid"}

\* The texts handed to ExecuteCallback:
\*   ""  "{{ noop }}"  "foo"  "{{ foo "a" }}"  "{{ foo "a" "b" }}"
\*   "{{ foo "a" "b" "c" }}"  "{{ unknownEval }}"  "{{ }}"  "foo a"
\*   "{{ noop }}{{ foo }}"  "{{ foo "a" }}{{ noop }}"
CallbackTemplates ==
    {<<>>,
     <<"{", "{", " ", "n", "o", "o", "p", " ", "}", "}">>,
     <<"f", "o", "o">>,
     <<"{", "{", " ", "f", "o", "o", " ", "\"", "a", "\"", " ", "}", "}">>,
     <<"{", "{", " ", "f", "o", "o", " ", "\"", "a", "\"", " ", "\"", "b", "\"", " ", "}",
       "}">>,
     <<"{", "{", " ", "f", "o", "o", " ", "\"", "a", "\"", " ", "\"", "b", "\"", " ", "\"",
       "c", "\"", " ", "}", "}">>,
     <<"{", "{", " ", "u", "n", "k", "n", "o", "w", "n", "E", "v", "a", "l", " ", "}", "}">>,
     <<"{", "{", " ", "}", "}">>,
     <<"f", "o", "o", " ", "a">>,
     <<"{", "{", " ", "n", "o", "o", "p", " ", "}", "}", "{", "{", " ", "f", "o", "o", " ",
       "}", "}">>,
     <<"{", "{", " ", "f", "o", "o", " ", "\"", "a", "\"", " ", "}", "}", "{", "{", " ",
       "n", "o", "o", "p", " ", "}", "}">>}

\* An expression span as written: the name and the arguments separated by spaces,
\* with a space on either side.
Render(span) ==
    <<" ">> \o span.name \o Join([i \in 1..Len(span.args) |-> <<" ">> \o span.args[i]])
    \o <<" ">>

\* The text with the literals lits around the closed spans: lits has one literal
\* more than there are spans.
RECURSIVE Compose(_, _)
Compose(lits, spans) ==
    IF spans = <<>> THEN lits[1]
    ELSE lits[1] \o Open \o Render(spans[1]) \o Close \o Compose(Tail(lits), Tail(spans))

\* "", "a}"
Literals == {<<>>, <<"a", "}">>}

\* bindState k1, foo x, bindState
Spans ==
    {[name |-> BindStateName, args |-> << <<"k", "1">> >>],
     [name |-> FooName, args |-> << <<"x">> >>],
     [name |-> BindStateName, args |-> <<>>]}

\* The literals and spans of the texts with up to MaxSpans closed spans.
Structures ==
    UNION {[lits : [1..(n + 1) -> Literals], spans : [1..n -> Spans]] : n \in 0..MaxSpans}

\* What follows an open marker that is never closed: " foo x", ""
Tails == {<<" ", "f", "o", "o", " ", "x">>, <<>>}

\* The literals and spans before an unclosed open marker, and the text after it.
Unclosed ==
    {x \in [lits : UNION {[1..(n + 1) -> Literals] : n \in 0..1},
            spans : UNION {[1..n -> Spans] : n \in 0..1}, tail : Tails] :
        Len(x.lits) = Len(x.spans) + 1}

\* The texts handed to EvaluateToString.
EvalTemplates ==
    {Compose(x.lits, x.spans) : x \in Structures}
    \cup {Compose(x.lits, x.spans) \o Open \o x.tail : x \in Unclosed}

\* A call that panics ends the goroutine and, unrecovered, the process.
Panics(op, name) == panicked' = [kind |-> op, of |-> name, thread |-> "bg"]

Register(x) ==
    /\ Alive
    /\ ops < MaxOps
    /\ ops' = ops + 1
    /\ LET r == RegisterIn(functions, x.name, x.minArgs, x.maxArgs, x.validator, x.handler)
       IN  /\ functions' = r.functions
           /\ ret' = [op |-> "Register", in |-> x, err |-> r.err]
           /\ IF "panic" \in DOMAIN r.err THEN Panics("Register", x.name)
              ELSE UNCHANGED panicked
    /\ UNCHANGED <<contextVars, evaluators, returned, trace, logged, built>>

RegisterEvaluator(x) ==
    /\ Alive
    /\ ops < MaxOps
    /\ ops' = ops + 1
    /\ LET r == RegisterEvaluatorIn(evaluators, x.name, x.minArgs, x.maxArgs, x.handler)
       IN  /\ evaluators' = r.evaluators
           /\ ret' = [op |-> "RegisterEvaluator", in |-> x, err |-> r.err]
    /\ UNCHANGED <<contextVars, panicked, functions, returned, trace, logged, built>>

\* AppBuilder.WithTemplateFunction logs the error of Register and returns the builder.
WithTemplateFunction(x) ==
    /\ Alive
    /\ built = "none"
    /\ ops < MaxOps
    /\ ops' = ops + 1
    /\ LET r == RegisterIn(functions, x.name, x.minArgs, x.maxArgs, x.validator, x.handler)
       IN  /\ functions' = r.functions
           /\ ret' = [op |-> "WithTemplateFunction", in |-> x]
           /\ logged' = IF r.err # NoErr THEN logged + 1 ELSE logged
    /\ UNCHANGED <<contextVars, panicked, evaluators, returned, trace, built>>

\* AppBuilder.Build returns an error when the configuration does not load or is not
\* valid, and the application otherwise.
Build ==
    /\ Alive
    /\ built = "none"
    /\ ops < MaxOps
    /\ ops' = ops + 1
    /\ \E loads \in BOOLEAN :
          /\ built' = IF loads THEN "app" ELSE "err"
          /\ ret' = [op |-> "Build", loads |-> loads]
    /\ UNCHANGED <<contextVars, panicked, functions, evaluators, returned, trace, logged>>

ExecuteCallback(templateStr) ==
    /\ Alive
    /\ ops < MaxOps
    /\ ops' = ops + 1
    /\ \E verdict \in Verdicts :
          LET r == ExecuteCallbackOf(functions, templateStr, verdict) IN
          /\ returned' = r.callback
          /\ trace' = r.invoked
          /\ ret' = [op |-> "ExecuteCallback", in |-> templateStr, verdict |-> verdict,
                     err |-> r.err]
    /\ UNCHANGED <<contextVars, panicked, functions, evaluators, logged, built>>

\* The application calls the callback it holds.
InvokeCallback ==
    /\ Alive
    /\ returned # NoCallback
    /\ ops < MaxOps
    /\ ops' = ops + 1
    /\ ret' = [op |-> "callback"]
    /\ IF returned = EmptyCallback
       THEN UNCHANGED <<trace, panicked>>
       ELSE IF CallPanics(returned.fn.Handler, callArgs(returned.fn, returned.args))
       THEN Panics("callback", returned.fn.Name) /\ UNCHANGED trace
       ELSE /\ trace' = trace \o HandlerCalls(returned.fn, returned.args)
            /\ UNCHANGED panicked
    /\ UNCHANGED <<contextVars, functions, evaluators, returned, logged, built>>

EvaluateToString(templateStr) ==
    /\ Alive
    /\ ops < MaxOps
    /\ ops' = ops + 1
    /\ LET r == EvaluateToStringOf(evaluators, state, templateStr) IN
          /\ trace' = r.invoked
          /\ ret' = [op |-> "EvaluateToString", in |-> templateStr, out |-> r.out,
                     err |-> r.err]
    /\ UNCHANGED <<contextVars, panicked, functions, evaluators, returned, logged, built>>

\* The registry, the builder and the callbacks of the executor.
ExecNext ==
    \/ \E x \in RegisterInputs : Register(x)
    \/ \E x \in EvaluatorInputs : RegisterEvaluator(x)
    \/ \E x \in BuilderInputs : WithTemplateFunction(x)
    \/ Build
    \/ \E templateStr \in CallbackTemplates : ExecuteCallback(templateStr)
    \/ InvokeCallback

ExecSpec == ExecInit /\ [][ExecNext]_vars

\* The payloads of the expressions handed to the parsers: the texts of up to
\* MaxLen characters over a quote, a backslash, a letter and a space.
Payloads == UNION {[1..n -> {"\"", "\\", "x", " "}] : n \in 0..MaxLen}

\* The expression that calls foo with a payload
FooCall(payload) == FooName \o <<" ">> \o payload

ParseInit ==
    /\ functions = newTestRegistry.functions
    /\ evaluators = newTestRegistry.evaluators
    /\ \E payload \in Payloads : ret = [op |-> "input", in |-> payload]
    /\ returned = NoCallback
    /\ trace = <<>>
    /\ logged = 0
    /\ built = "none"
    /\ ops = 0
    /\ App = "nil"
    /\ boundViews = [k \in Keys |-> <<>>]
    /\ subscribers = [k \in Keys |-> <<>>]
    /\ formSubmitCallbacks = [n \in FormNames |-> "nil"]
    /\ formCancelCallbacks = [n \in FormNames |-> "nil"]
    /\ executor = TRUE
    /\ state = [k \in Keys |-> IF k = "k1" THEN StringValue(<<"v">>) ELSE Nil]
    /\ dirtyKeys = {}
    /\ mu = [w |-> "none", r |-> {}]
    /\ updates = <<>>
    /\ running = NoUpdate
    /\ done = {}
    /\ outer = [t \in Threads |-> Idle]
    /\ cb = [t \in Threads |-> NoCb]
    /\ inner = [t \in Threads |-> None]
    /\ result = [t \in Threads |-> NoResult]
    /\ pass = EmptyPass
    /\ log = <<>>
    /\ pending = [k \in Keys |-> <<>>]
    /\ panicked = NoPanic
    /\ calls = 0

\* argsStr := strings.TrimSpace(matches[2]); args := parseArguments(argsStr)
ParseArguments ==
    /\ ret.op = "input"
    /\ ret' = [op |-> "parseArguments", in |-> ret.in,
               args |-> parseArguments(TrimSpace(ret.in))]
    /\ UNCHANGED <<contextVars, panicked, functions, evaluators, returned, trace, logged,
                   built, ops>>

ParseEvaluatorExpr ==
    /\ ret.op = "input"
    /\ LET r == parseEvaluatorExpr(FooCall(ret.in)) IN
          ret' = [op |-> "parseEvaluatorExpr", in |-> ret.in, name |-> r.name,
                  args |-> r.args]
    /\ UNCHANGED <<contextVars, panicked, functions, evaluators, returned, trace, logged,
                   built, ops>>

ParseNext ==
    \/ ParseArguments
    \/ ParseEvaluatorExpr
    \/ ret.op = "input" /\ ExecuteCallback(FooCall(ret.in))

ParseSpec == ParseInit /\ [][ParseNext]_vars

\* The evaluators and the strings the executor renders.
EvalNext ==
    \/ \E x \in EvaluatorInputs : RegisterEvaluator(x)
    \/ \E templateStr \in EvalTemplates : EvaluateToString(templateStr)

EvalSpec == ExecInit /\ [][EvalNext]_vars

----------------------------------------------------------------------------
\* What the running pass has done so far.

Range(q) == {q[n] : n \in 1..Len(q)}

\* The positions of the log at which callback ev of entry i of key k was invoked.
Invoked(ev, k, i) ==
    {n \in 1..Len(log) : log[n].ev = ev /\ log[n].key = k /\ log[n].idx = i}

Complete(bv) == bv.Refresh /\ bv.SetText

\* The step in which RefreshDirtyBoundViews drains the dirty set, and the one in
\* which it returns.
DrainStep == outer["ui"] = AtStage(RefreshDirtyBoundViews, "Locked")
             /\ outer'["ui"] = AtStage(RefreshDirtyBoundViews, "Loop")

ReturnStep == Returning("ui") /\ outer'["ui"] = Idle

----------------------------------------------------------------------------
\* The pass has invoked every snapshot entry of key k that it invokes at all.
Processed(k) ==
    /\ k \in Range(pass.keys)
    /\ \A i \in 1..Len(pass.viewsByKey[k]) :
          Complete(pass.viewsByKey[k][i]) =>
              Invoked("Refresh", k, i) # {} /\ Invoked("SetText", k, i) # {}
    /\ \A j \in 1..Len(pass.subsByKey[k]) : Invoked("Subscriber", k, j) # {}

\* The UI thread waits in QueueUpdateDraw for an update only it could run.
UIBlocked == outer["ui"].op = "SetState" /\ outer["ui"].stage = "Wait"

\* The step appends a reconciliation pass to the queue of the UI thread.
EnqueuesPass ==
    /\ Len(updates') = Len(updates) + 1
    /\ updates'[Len(updates')].f = "refresh"

\* Thread t takes a step of the call of op it is executing.
StepOf(t, op) ==
    /\ Active(t).op = op
    /\ (inner'[t] # inner[t] \/ outer'[t] # outer[t])

InLockCall(t) == Active(t).stage \in {"Lock", "RLock", "Locked", "RLocked"}

\* C1: when a key was written twice (v1, then v2) before the pass drained it and
\* has not been written since, the pass, on returning, has called SetText exactly
\* once on every bound view of the key that has both funcs, with fmt.Sprint(v2).
C1_Coalescing ==
    Returning("ui") =>
        \A k \in Keys :
            (Len(pass.pending[k]) = 2 /\ pending[k] = <<>>) =>
                \A i \in 1..Len(pass.viewsByKey[k]) :
                    Complete(pass.viewsByKey[k][i]) =>
                        /\ Cardinality(Invoked("SetText", k, i)) = 1
                        /\ \A n \in Invoked("SetText", k, i) :
                               log[n].s = Sprint(pass.pending[k][2])

C1_Witness ==
    /\ Returning("ui")
    /\ \E k \in Keys :
          /\ Len(pass.pending[k]) = 2
          /\ pass.pending[k][1] # pass.pending[k][2]
          /\ Sprint(pass.pending[k][1]) # Sprint(pass.pending[k][2])
          /\ pending[k] = <<>>
          /\ \E i \in 1..Len(pass.viewsByKey[k]) :
                \E n \in Invoked("SetText", k, i) : log[n].s = Sprint(pass.pending[k][2])

----------------------------------------------------------------------------
\* C2: with an Application, while the process runs and the UI thread is not blocked
\* in SetState, a dirty key leads to a pass of the UI thread that has drained the
\* key and, on returning, has invoked every bound view and subscriber of the key;
\* a pass is enqueued only by the worker, in a step in which HasDirtyKeys has
\* returned true to it, and HasDirtyKeys returns whether the dirty set is non-empty.
C2_Propagated ==
    /\ \A k \in Keys :
          (App = "app" /\ k \in dirtyKeys)
              ~> \/ Returning("ui") /\ Processed(k)
                 \/ ~Alive
                 \/ UIBlocked
    /\ [][/\ EnqueuesPass =>
                /\ outer["worker"] = refreshLoop("check")
                /\ result["worker"] = [type |-> "bool", b |-> TRUE]
          /\ \A t \in Threads :
                (inner[t].op = "HasDirtyKeys" /\ inner'[t] = None) =>
                    result'[t] = [type |-> "bool", b |-> dirtyKeys # {}]]_vars

C2_Witness ==
    /\ Returning("ui")
    /\ running = [f |-> "refresh", from |-> "worker"]
    /\ outer["worker"] = refreshLoop("wait")
    /\ \E k \in Keys :
          /\ Processed(k)
          /\ pass.pending[k] # <<>>
          /\ Invoked("SetText", k, 1) # {}
          /\ Invoked("Subscriber", k, 1) # {}

----------------------------------------------------------------------------
\* C3: a key that a callback of the running pass marks dirty is not processed
\* again inside that pass (the pass invokes only the entries of its snapshot, each
\* at most once, for the keys it drained) and is still in the dirty set in the
\* step in which the pass returns; the next drain takes every dirty key.
C3_InPass ==
    outer["ui"].op = "RefreshDirtyBoundViews" =>
        /\ \A n \in 1..Len(log) :
              /\ log[n].key \in Range(pass.keys)
              /\ Cardinality(Invoked(log[n].ev, log[n].key, log[n].idx)) = 1
              /\ log[n].idx <= IF log[n].ev = "Subscriber"
                               THEN Len(pass.subsByKey[log[n].key])
                               ELSE Len(pass.viewsByKey[log[n].key])
        /\ \A i, j \in 1..Len(pass.keys) : pass.keys[i] = pass.keys[j] => i = j
        /\ pass.marked \subseteq dirtyKeys

C3_Deferred ==
    /\ [](C3_InPass)
    /\ [][(ReturnStep => pass.marked \subseteq dirtyKeys')
          /\ (DrainStep => Range(pass'.keys) = dirtyKeys /\ dirtyKeys' = {})]_vars

C3_Witness ==
    /\ Returning("ui")
    /\ \E k \in pass.marked :
          /\ k \in Range(pass.keys)
          /\ k \in dirtyKeys
          /\ \E i \in 1..Len(pass.viewsByKey[k]) : Invoked("Refresh", k, i) # {}

----------------------------------------------------------------------------
\* C4: while a thread runs user code (a bound view's Refresh or SetText, a
\* subscriber, a form callback or the callback of RunCallback) and is not inside a
\* call that code made, it holds the mutex neither for writing nor for reading;
\* a call made from user code returns unless the process has panicked.
C4_Unlocked ==
    \A t \in Threads :
        (cb[t] # NoCb /\ ~InLockCall(t)) => (mu.w # t /\ t \notin mu.r)

C4_LockFree ==
    /\ [](C4_Unlocked)
    /\ \A t \in Threads : (cb[t] # NoCb /\ inner[t] # None) ~> (inner[t] = None \/ ~Alive)

C4_Witness ==
    /\ cb["ui"] # NoCb /\ cb["ui"].kind = "Subscriber"
    /\ inner["ui"].op = "SetStateDirect" /\ inner["ui"].stage = "Locked"
    /\ mu.w = "ui"

----------------------------------------------------------------------------
\* C5: a thread is inside the body of a writing method exactly when it holds the
\* mutex for writing and inside the body of a reading method exactly when it holds
\* it for reading; at most one thread writes and none reads meanwhile; the fields
\* of the store change only in a step of the thread that holds the mutex for
\* writing; and every call that takes the mutex returns unless the process has
\* panicked.
C5_Exclusion ==
    /\ \A t \in Threads :
          /\ (Active(t).stage = "Locked") <=> (mu.w = t)
          /\ (Active(t).stage = "RLocked") <=> (t \in mu.r)
          /\ Active(t).stage = "Locked" =>
                Active(t).op \in {"SetStateDirect", "setStateInternal",
                                  "RegisterBoundView", "OnStateChange",
                                  "RegisterFormSubmit", "RegisterFormCancel",
                                  "SetExecutor", "RefreshDirtyBoundViews"}
          /\ Active(t).stage = "RLocked" =>
                Active(t).op \in {"GetState", "HasDirtyKeys", "RunFormSubmit",
                                  "RunFormCancel", "RunCallback"}
    /\ Cardinality({t \in Threads : Active(t).stage = "Locked"}) <= 1
    /\ (\E t \in Threads : Active(t).stage = "Locked") =>
          ~(\E t \in Threads : Active(t).stage = "RLocked")

C5_NoRaceNoDeadlock ==
    /\ [](C5_Exclusion)
    /\ [][ctxVars' # ctxVars =>
             \E t \in Threads : mu.w = t /\ Active(t).stage = "Locked" /\ mu'.w = "none"]_vars
    /\ \A t \in Threads : InLockCall(t) ~> (~InLockCall(t) \/ ~Alive)

C5_Witness ==
    /\ Cardinality(mu.r) = 2
    /\ \E t \in Threads : Active(t).op = "SetStateDirect" /\ Active(t).stage = "Lock"
    /\ \E t \in mu.r : Active(t).op = "GetState"

----------------------------------------------------------------------------
\* C6: when the Refresh or SetText of a bound view has panicked during a pass, the
\* pass goes on to return having invoked the bound views and subscribers of every
\* other key it drained.
C6_FailureIsolated ==
    \A k \in Keys :
        (/\ ~Alive
         /\ panicked.kind \in {"Refresh", "SetText"}
         /\ panicked.thread = "ui"
         /\ k \in Range(pass.keys) /\ k # panicked.of)
            ~> (Returning("ui") /\ Processed(k))

----------------------------------------------------------------------------
\* C7: with an Application, the UI thread never leaves a call of SetState it has
\* entered; a background thread leaves its call of SetState only after the UI
\* thread has run the update it queued, which is neither queued nor running any
\* more, and it does leave unless the process panics or the UI thread blocks; the
\* steps of SetState itself change neither the state map nor the dirty set, and
\* setStateInternal, which stores the value and marks the key, runs on the UI
\* thread only.
QueuedBy(t) == \E n \in 1..Len(updates) : updates[n].f = "set" /\ updates[n].from = t

C7_SetState ==
    /\ [][/\ outer["ui"].op = "SetState" => outer'["ui"].op = "SetState"
          /\ \A t \in Callers :
                /\ (StepOf(t, "SetState") /\ App = "app" /\ outer'[t] = Idle) =>
                      /\ t \in done
                      /\ ~QueuedBy(t)
                      /\ (running = NoUpdate \/ running.from # t)
                /\ StepOf(t, "SetState") => UNCHANGED <<state, dirtyKeys>>
                /\ (t \in done' /\ t \notin done) =>
                      /\ StepOf("ui", "setStateInternal")
                      /\ outer[t] = AtStage(SetState(outer["ui"].key, outer["ui"].value), "Wait")
                      /\ state'[outer["ui"].key] = outer["ui"].value
                      /\ outer["ui"].key \in dirtyKeys']_vars
    /\ [](\A t \in Threads : Active(t).op = "setStateInternal" => t = "ui")
    /\ (outer["bg"].op = "SetState") ~> (outer["bg"].op # "SetState" \/ ~Alive \/ UIBlocked)

C7_Witness ==
    /\ outer["ui"].op = "SetState" /\ outer["ui"].stage = "Wait"
    /\ outer["bg"].op = "SetState" /\ outer["bg"].stage = "Wait"
    /\ "bg" \in done
    /\ state[outer["bg"].key] = outer["bg"].value
    /\ outer["bg"].key \in dirtyKeys

----------------------------------------------------------------------------
\* C8: every step of a call of SetStateDirect, on any thread, leaves alone the
\* queue of the UI thread, the running callbacks, the record of the pass, the
\* bound views, the subscribers, the form callbacks, the executor and the values
\* of the other keys; the step in which it returns stores the value under the key
\* and has the key in the dirty set; and the call returns unless the process
\* panics.
C8_SetStateDirect ==
    /\ [][\A t \in Threads :
             StepOf(t, "SetStateDirect") =>
                 /\ UNCHANGED <<updates, running, cb, log, boundViews, subscribers,
                                formSubmitCallbacks, formCancelCallbacks, executor>>
                 /\ \A k \in Keys \ {Active(t).key} :
                       state'[k] = state[k] /\ (k \in dirtyKeys' <=> k \in dirtyKeys)
                 /\ Active(t).stage = "Lock" => UNCHANGED <<state, dirtyKeys>>
                 /\ Active(t).stage = "Locked" =>
                       /\ state'[Active(t).key] = Active(t).value
                       /\ Active(t).key \in dirtyKeys'
                       /\ mu'.w = "none"
                       /\ IF inner[t] # None THEN inner'[t] = None
                                             ELSE outer'[t] = Idle]_vars
    /\ \A t \in Threads :
          (Active(t).op = "SetStateDirect")
              ~> (Active(t).op # "SetStateDirect" \/ ~Alive)

C8_Witness ==
    /\ outer["ui"].op = "RunCallback"
    /\ cb["ui"] # NoCb /\ cb["ui"].stage = "after" /\ inner["ui"] = None
    /\ \E k \in Keys : k \in dirtyKeys /\ state[k] # Nil
    /\ updates = <<>>

----------------------------------------------------------------------------
\* C9: in the step in which it drains, the pass copies the bound views and the
\* subscribers registered for every dirty key; when it returns it has invoked
\* Refresh and then SetText exactly once on each copied view that has both funcs
\* (and neither on a view that lacks one), has called each copied subscriber
\* exactly once, for each key all the views before the subscribers, and has
\* invoked nothing that was registered after the drain.
C9_AtReturn ==
    Returning("ui") =>
        /\ \A k \in Range(pass.keys) :
              /\ \A i \in 1..Len(pass.viewsByKey[k]) :
                    IF Complete(pass.viewsByKey[k][i])
                    THEN /\ Cardinality(Invoked("Refresh", k, i)) = 1
                         /\ Cardinality(Invoked("SetText", k, i)) = 1
                         /\ \A a \in Invoked("Refresh", k, i) :
                               \A b \in Invoked("SetText", k, i) : b = a + 1
                    ELSE Invoked("Refresh", k, i) \cup Invoked("SetText", k, i) = {}
              /\ \A j \in 1..Len(pass.subsByKey[k]) :
                    Cardinality(Invoked("Subscriber", k, j)) = 1
              /\ \A a, b \in 1..Len(log) :
                    (log[a].key = k /\ log[b].key = k
                     /\ log[a].ev # "Subscriber" /\ log[b].ev = "Subscriber") => a < b
        /\ \A n \in 1..Len(log) :
              /\ log[n].key \in Range(pass.keys)
              /\ log[n].idx <= IF log[n].ev = "Subscriber"
                               THEN Len(pass.subsByKey[log[n].key])
                               ELSE Len(pass.viewsByKey[log[n].key])

C9_OncePerPass ==
    /\ [](C9_AtReturn)
    /\ [][DrainStep =>
             /\ Range(pass'.keys) = dirtyKeys
             /\ \A k \in dirtyKeys : /\ pass'.viewsByKey[k] = boundViews[k]
                                     /\ pass'.subsByKey[k] = subscribers[k]]_vars

C9_Witness ==
    /\ Returning("ui")
    /\ \E k \in Range(pass.keys) :
          /\ Len(pass.viewsByKey[k]) >= 1
          /\ Len(pass.subsByKey[k]) >= 1
          /\ Len(boundViews[k]) > Len(pass.viewsByKey[k])
          /\ Invoked("SetText", k, 1) # {}
          /\ Invoked("Subscriber", k, 1) # {}

----------------------------------------------------------------------------
\* C10: every subscriber call of a pass carries the raw value last written to its
\* key before the pass drained the dirty set (a stored value, not its string),
\* whatever has been written to the key since.
C10_SnapshotValue ==
    \A n \in 1..Len(log) :
        log[n].ev = "Subscriber" =>
            /\ pass.pending[log[n].key] # <<>>
            /\ log[n].v = pass.pending[log[n].key][Len(pass.pending[log[n].key])]
            /\ log[n].v \in Values

C10_Witness ==
    \E n \in 1..Len(log) :
        /\ log[n].ev = "Subscriber"
        /\ log[n].v.type = "int"
        /\ state[log[n].key] # log[n].v
        /\ pending[log[n].key] # <<>>

----------------------------------------------------------------------------
\* C11: a call of RegisterFormSubmit with a non-empty name puts its callback in the
\* submit slot of that name, replacing what was there, and changes no other slot; a
\* call with the empty name and every other step leave the submit slots alone, so
\* a slot holds the callback registered last; RunFormSubmit starts, on the calling
\* thread, exactly the callback its slot holds when it reads it, returns when that
\* callback returns, and starts nothing when the slot is empty. The same holds
\* for RegisterFormCancel and RunFormCancel and the cancel slots.
C11_Slot(reg, run, kind, slots, slotsNext, other, otherNext) ==
    /\ \A t \in Threads :
          /\ (StepOf(t, reg) /\ Active(t).stage = "Locked") =>
                /\ Active(t).name # ""
                /\ slotsNext[Active(t).name] = Active(t).callback
                /\ \A n \in FormNames \ {Active(t).name} : slotsNext[n] = slots[n]
                /\ otherNext = other
          /\ (StepOf(t, run) /\ outer[t].stage = "RLocked") =>
                IF slots[outer[t].name] = "nil"
                THEN outer'[t] = Idle /\ cb'[t] = NoCb
                ELSE /\ cb'[t] = Invoke(kind, slots[outer[t].name])
                     /\ outer'[t] = AtStage(outer[t], "Call")
          /\ (outer[t].op = run /\ outer[t].stage = "Call") =>
                /\ cb[t] # NoCb /\ cb[t].kind = kind
                /\ cb'[t] \in {NoCb, cb[t], [cb[t] EXCEPT !.stage = "after"]}
                /\ cb'[t] = NoCb => outer'[t] = Idle
          /\ (cb'[t] # NoCb /\ cb'[t].kind = kind /\ cb[t] = NoCb) =>
                outer[t].op = run /\ outer[t].stage = "RLocked"
    /\ slotsNext # slots =>
          \E t \in Threads : StepOf(t, reg) /\ Active(t).stage = "Locked"

C11_NamedSlots ==
    [][/\ C11_Slot("RegisterFormSubmit", "RunFormSubmit", "FormSubmit",
                   formSubmitCallbacks, formSubmitCallbacks',
                   formCancelCallbacks, formCancelCallbacks')
       /\ C11_Slot("RegisterFormCancel", "RunFormCancel", "FormCancel",
                   formCancelCallbacks, formCancelCallbacks',
                   formSubmitCallbacks, formSubmitCallbacks')]_vars

C11_Witness ==
    /\ cb["bg"] = Invoke("FormSubmit", "cb2")
    /\ outer["bg"] = AtStage(RunFormSubmit("form"), "Call")
    /\ formSubmitCallbacks["form"] = "cb2"
    /\ formCancelCallbacks["form"] = "cb2"

----------------------------------------------------------------------------
\* A call of the registry or of the executor that has just returned or panicked.
Called(op) == ops' = ops + 1 /\ ret'.op = op

\* The call returned an error.
Failed(r) == r.err # NoErr /\ "panic" \notin DOMAIN r.err

\* C12: Register with a name that is already among the actions returns an error
\* and leaves the actions as they were, so that Get still returns the descriptor
\* registered first; RegisterEvaluator does the same with the evaluators; Register
\* never changes the evaluators and RegisterEvaluator never changes the actions,
\* whatever names the other namespace holds.
C12_UniqueNames ==
    [][/\ Called("Register") =>
             /\ evaluators' = evaluators
             /\ Found(functions, ret'.in.name) =>
                   /\ Failed(ret')
                   /\ functions' = functions
       /\ Called("RegisterEvaluator") =>
             /\ functions' = functions
             /\ Found(evaluators, ret'.in.name) =>
                   /\ Failed(ret')
                   /\ evaluators' = evaluators]_vars

C12_Witness ==
    /\ ret.op = "Register"
    /\ ret.in.name = FooName
    /\ ret.err = [msg |-> "function is already registered", name |-> FooName]
    /\ functions[FooName].Handler # ret.in.handler
    /\ Found(evaluators, FooName)
    /\ Found(functions, BindStateName) = FALSE

----------------------------------------------------------------------------
\* The parameters a handler must have: (*Context, maxArgs strings) with a finite
\* maxArgs, (*Context, []string) without.
ShapeOf(maxArgs) ==
    IF maxArgs = NilPtr THEN <<"*Context", "[]string">>
    ELSE <<"*Context">> \o [i \in 1..maxArgs[1] |-> "string"]

\* An action Register must reject.
Malformed(x) ==
    \/ x.minArgs < 0
    \/ x.maxArgs # NilPtr /\ x.maxArgs[1] < x.minArgs
    \/ x.handler.kind # "func"
    \/ x.handler.in # ShapeOf(x.maxArgs)

\* The identifier a text handed to ExecuteCallback starts with: the one of noop,
\* foo and unknownEval that stands first in it.
Named(templateStr) ==
    LET names == {n \in {NoopName, FooName, UnknownName} : Index(templateStr, n) >= 0}
    IN  IF names = {} THEN <<>>
        ELSE CHOOSE n \in names :
                \A o \in names : Index(templateStr, n) <= Index(templateStr, o)

\* C13: Register of an action with a negative minArgs, with maxArgs below minArgs
\* or with a handler that has not the parameters of its arity mode returns an
\* error and leaves the actions as they were; ExecuteCallback of a name that is
\* not among the actions returns an unknown-function error and no callback.
C13_Rejected ==
    [][/\ (Called("Register") /\ Malformed(ret'.in)) =>
             /\ Failed(ret')
             /\ functions' = functions
       /\ (Called("ExecuteCallback") /\ Named(ret'.in) = FooName
             /\ ~Found(functions, FooName)) =>
             /\ ret'.err = [msg |-> "unknown function", name |-> FooName]
             /\ returned' = NoCallback]_vars

----------------------------------------------------------------------------
\* C14: once a registration made through WithTemplateFunction has failed, Build
\* does not return a running application.
C14_FailFast == logged > 0 => built # "app"

----------------------------------------------------------------------------
\* The quoted arguments of a text of CallbackTemplates.
Quoted(templateStr) ==
    LET marks == {i \in 1..Len(templateStr) : templateStr[i] = "\""}
        n     == Cardinality(marks) \div 2
        nth(j) == CHOOSE i \in marks : Cardinality({h \in marks : h < i}) = j
    IN  [j \in 1..n |-> SubSeq(templateStr, nth(2 * j - 2) + 1, nth(2 * j - 1) - 1)]

\* ExecuteCallback has just returned from a text that names a registered action.
Executed == Called("ExecuteCallback") /\ Found(functions, Named(ret'.in))

\* The descriptor of that action.
Action == functions[Named(ret'.in)]

\* C15: ExecuteCallback of a registered action with fewer quoted arguments than
\* minArgs returns a 'requires at least minArgs' error; with more than a finite
\* maxArgs, an 'accepts at most maxArgs' error; in both cases it returns no callback
\* and invokes neither the validator nor the handler; for a variadic action it
\* returns neither error when the arguments are at least minArgs.
C15_ArityFirst ==
    [][Executed =>
             LET fn   == Action
                 argc == Len(Quoted(ret'.in))
             IN
             /\ argc < fn.MinArgs =>
                   /\ ret'.err = [msg |-> "requires at least", name |-> fn.Name,
                                  n |-> fn.MinArgs, got |-> argc]
                   /\ returned' = NoCallback
                   /\ trace' = <<>>
             /\ (argc >= fn.MinArgs /\ fn.MaxArgs # NilPtr /\ argc > fn.MaxArgs[1]) =>
                   /\ ret'.err = [msg |-> "accepts at most", name |-> fn.Name,
                                  n |-> fn.MaxArgs[1], got |-> argc]
                   /\ returned' = NoCallback
                   /\ trace' = <<>>
             /\ (argc >= fn.MinArgs /\ fn.MaxArgs = NilPtr) =>
                   ret'.err.msg \notin {"requires at least", "accepts at most"}]_vars

\* An action with a validator and one or two arguments has refused three.
C15_Witness ==
    /\ ret.op = "ExecuteCallback"
    /\ ret.err = [msg |-> "accepts at most", name |-> FooName, n |-> 2, got |-> 3]
    /\ functions[FooName].Validator
    /\ functions[FooName].MinArgs = 1
    /\ returned = NoCallback
    /\ trace = <<>>

----------------------------------------------------------------------------
IsValidator(e) == e.kind = "validator"

IsHandler(e) == e.kind = "handler"

\* The number of arguments is inside the bounds of the action.
InBounds(fn, argc) ==
    argc >= fn.MinArgs /\ (fn.MaxArgs = NilPtr \/ argc <= fn.MaxArgs[1])

\* C16: ExecuteCallback invokes the validator of the action once, with the parsed
\* arguments, when the number of arguments is inside the bounds, and not at all
\* otherwise; when the validator returns an error ExecuteCallback returns a
\* validation error that wraps it and no callback, and it returns the callback
\* when the validator returns nil; a handler is invoked only by a call of a
\* callback that was returned, and such a call does not invoke the validator.
C16_ValidatedOnce ==
    [][/\ Executed =>
             LET fn   == Action
                 args == Quoted(ret'.in)
             IN  /\ trace' = IF fn.Validator /\ InBounds(fn, Len(args))
                             THEN <<[kind |-> "validator", name |-> fn.Name,
                                     args |-> args]>>
                             ELSE <<>>
                 /\ (fn.Validator /\ InBounds(fn, Len(args))) =>
                       IF ret'.verdict = "nil"
                       THEN ret'.err = NoErr /\ returned' # NoCallback
                       ELSE /\ ret'.err = [msg |-> "validation failed", name |-> fn.Name,
                                           cause |-> ret'.verdict]
                            /\ returned' = NoCallback
       /\ Len(SelectSeq(trace', IsHandler)) > Len(SelectSeq(trace, IsHandler)) =>
             /\ Called("callback")
             /\ returned # NoCallback
             /\ SelectSeq(trace', IsValidator) = SelectSeq(trace, IsValidator)
       /\ Called("callback") =>
             SelectSeq(trace', IsValidator) = SelectSeq(trace, IsValidator)]_vars

\* The callback of an action with a validator has been called twice.
C16_Witness ==
    /\ ret.op = "callback"
    /\ trace = <<[kind |-> "validator", name |-> FooName, args |-> << <<"a">> >>],
                 [kind |-> "handler", name |-> FooName, args |-> << <<"a">> >>],
                 [kind |-> "handler", name |-> FooName, args |-> << <<"a">> >>]>>
    /\ returned.fn.Validator

----------------------------------------------------------------------------
\* C17: ExecuteCallback of a valid expression invokes no handler and returns a
\* callback that holds the arguments of the text; every call of that callback
\* invokes the handler of the action once more, with those arguments, and
\* returns.
C17_OncePerCall ==
    [][/\ (Executed /\ ret'.err = NoErr) =>
             /\ SelectSeq(trace', IsHandler) = <<>>
             /\ returned' = createCallbackFromHandler(Action, Quoted(ret'.in))
       /\ (Called("callback") /\ returned # EmptyCallback) =>
             /\ Alive'
             /\ trace' = Append(trace, [kind |-> "handler", name |-> returned.fn.Name,
                                        args |-> returned.args])]_vars

----------------------------------------------------------------------------
\* The span names a registered evaluator and its arguments are inside the bounds.
Valid(span) ==
    /\ Found(evaluators, span.name)
    /\ Len(span.args) >= evaluators[span.name].MinArgs
    /\ Len(span.args) <= evaluators[span.name].MaxArgs

\* What the evaluator of a valid span returns.
ResultOf(span) == EvaluatorHandler(evaluators[span.name].Handler, state, span.args)

\* The literals with the results of the spans between them.
RECURSIVE Interleave(_, _)
Interleave(lits, spans) ==
    IF spans = <<>> THEN lits[1]
    ELSE lits[1] \o ResultOf(spans[1]) \o Interleave(Tail(lits), Tail(spans))

\* One call of the evaluator of each span, in the order of the spans.
EvaluatorCalls(spans) ==
    [i \in 1..Len(spans) |->
        [kind |-> "evaluator", name |-> spans[i].name, args |-> spans[i].args]]

\* C18: EvaluateToString of a text that ends in an open marker with no close marker
\* after it, all closed spans before it being valid, returns the results of the
\* closed spans between the literals, followed by the open marker and the text
\* after it unchanged, invoking only the evaluators of the closed spans; the
\* splitter puts that open marker and text in the last segment, at an even index.
C18_UnclosedLiteral ==
    [][Called("EvaluateToString") =>
          \A x \in Unclosed :
             (/\ ret'.in = Compose(x.lits, x.spans) \o Open \o x.tail
              /\ \A i \in 1..Len(x.spans) : Valid(x.spans[i])) =>
                /\ ret'.err = NoErr
                /\ ret'.out = Interleave(x.lits, x.spans) \o Open \o x.tail
                /\ trace' = EvaluatorCalls(x.spans)
                /\ LET parts == splitTemplateString(ret'.in) IN
                      /\ (Len(parts) - 1) % 2 = 0
                      /\ parts[Len(parts)] = Open \o x.tail]_vars

----------------------------------------------------------------------------
\* C19: EvaluateToString of a text made of literals and closed spans, every span
\* naming a registered evaluator with a number of arguments inside its bounds,
\* returns without error the literals and the results of the evaluators in the
\* order of the text, and invokes the evaluator of each span once, in that order;
\* with no span it returns the text unchanged.
C19_Concatenated ==
    [][Called("EvaluateToString") =>
          \A x \in Structures :
             (/\ ret'.in = Compose(x.lits, x.spans)
              /\ \A i \in 1..Len(x.spans) : Valid(x.spans[i])) =>
                /\ ret'.err = NoErr
                /\ ret'.out = Interleave(x.lits, x.spans)
                /\ trace' = EvaluatorCalls(x.spans)
                /\ x.spans = <<>> => ret'.out = ret'.in]_vars

\* "a}{{ foo x }}{{ bindState k1 }}a}" has given "a}eval:xva}".
C19_Witness ==
    /\ ret.op = "EvaluateToString"
    /\ ret.in = Compose(<< <<"a", "}">>, <<>>, <<"a", "}">> >>,
                        <<[name |-> FooName, args |-> << <<"x">> >>],
                          [name |-> BindStateName, args |-> << <<"k", "1">> >>]>>)
    /\ ret.out = <<"a", "}", "e", "v", "a", "l", ":", "x", "v", "a", "}">>
    /\ ret.err = NoErr
    /\ Len(trace) = 2

\* The first span of the text that is not valid.
FirstFailing(spans) == CHOOSE i \in 1..Len(spans) :
                          ~Valid(spans[i]) /\ \A j \in 1..(i - 1) : Valid(spans[j])

\* C20: EvaluateToString of a text with a span that names no registered evaluator
\* or has a number of arguments outside the bounds returns an error that names the
\* evaluator of the first such span, and the empty string; it has invoked the
\* evaluators of the spans before that one and no other.
C20_FirstFailure ==
    [][Called("EvaluateToString") =>
          \A x \in Structures :
             (/\ ret'.in = Compose(x.lits, x.spans)
              /\ \E i \in 1..Len(x.spans) : ~Valid(x.spans[i])) =>
                LET i    == FirstFailing(x.spans)
                    span == x.spans[i]
                IN  /\ ret'.err =
                          IF Found(evaluators, span.name)
                          THEN [msg |-> "evaluator expects args", name |-> span.name,
                                min |-> evaluators[span.name].MinArgs,
                                max |-> evaluators[span.name].MaxArgs,
                                got |-> Len(span.args)]
                          ELSE [msg |-> "unknown evaluator", name |-> span.name]
                    /\ ret'.out = <<>>
                    /\ trace' = EvaluatorCalls(SubSeq(x.spans, 1, i - 1))]_vars

\* "a}{{ bindState k1 }}{{ foo x }}" with foo taking no argument: bindState was
\* invoked, foo was not, and nothing is returned.
C20_Witness ==
    /\ ret.op = "EvaluateToString"
    /\ ret.in = Compose(<< <<"a", "}">>, <<>>, <<>> >>,
                        <<[name |-> BindStateName, args |-> << <<"k", "1">> >>],
                          [name |-> FooName, args |-> << <<"x">> >>]>>)
    /\ ret.err = [msg |-> "evaluator expects args", name |-> FooName, min |-> 0,
                  max |-> 0, got |-> 1]
    /\ ret.out = <<>>
    /\ trace = <<[kind |-> "evaluator", name |-> BindStateName,
                  args |-> << <<"k", "1">> >>]>>

----------------------------------------------------------------------------
\* The payload of a call of foo.
PayloadOf(text) == SubSeq(text, Len(FooName) + 2, Len(text))

\* The payload holds bare words and no quote.
BareWords(payload) ==
    /\ \E i \in 1..Len(payload) : payload[i] = "x"
    /\ \A i \in 1..Len(payload) : payload[i] # "\""

\* C21: the parser of the callback path returns no argument for a payload of
\* bare words without a quote, and ExecuteCallback of 'foo' followed by such a
\* payload, foo being an action with minArgs >= 1, returns the 'requires at least'
\* error for 0 arguments and no callback.
C21_QuotedOnly ==
    [][/\ (ret'.op = "parseArguments" /\ ret.op = "input" /\ BareWords(ret'.in)) =>
             ret'.args = <<>>
       /\ (Called("ExecuteCallback") /\ BareWords(PayloadOf(ret'.in))
             /\ functions[FooName].MinArgs >= 1) =>
             /\ ret'.err = [msg |-> "requires at least", name |-> FooName,
                            n |-> functions[FooName].MinArgs, got |-> 0]
             /\ returned' = NoCallback
             /\ trace' = <<>>]_vars

\* ExecuteCallback of "foo x x" has failed for want of an argument.
C21_Witness ==
    /\ ret.op = "ExecuteCallback"
    /\ ret.in = FooCall(<<"x", " ", "x">>)
    /\ ret.err = [msg |-> "requires at least", name |-> FooName, n |-> 1, got |-> 0]
    /\ returned = NoCallback

----------------------------------------------------------------------------
\* The whitespace-separated words of a text, in order.
Words(s) ==
    LET starts == {i \in 1..Len(s) : ~IsSpace(s[i]) /\ (i = 1 \/ IsSpace(s[i - 1]))}
        end(i) == CHOOSE j \in i..Len(s) :
                     /\ \A h \in i..j : ~IsSpace(s[h])
                     /\ j = Len(s) \/ IsSpace(s[j + 1])
        nth(n) == CHOOSE i \in starts : Cardinality({h \in starts : h < i}) = n - 1
    IN  [n \in 1..Cardinality(starts) |-> SubSeq(s, nth(n), end(nth(n)))]

\* C22: for the same payload the parser of the evaluator path returns the
\* arguments of the parser of the callback path when these are at least one, and
\* the whitespace-separated words of the payload when they are none.
C22_Agreement ==
    [][(ret'.op = "parseEvaluatorExpr" /\ ret.op = "input") =>
          LET quoted == parseArguments(TrimSpace(ret'.in)) IN
          /\ ret'.name = FooName
          /\ ret'.args = IF quoted # <<>> THEN quoted ELSE Words(ret'.in)]_vars

\* 'foo x "x"' has the argument x of the quotes alone.
C22_Witness ==
    /\ ret.op = "parseEvaluatorExpr"
    /\ ret.in = <<"x", " ", "\"", "x", "\"">>
    /\ ret.args = << <<"x">> >>

----------------------------------------------------------------------------
\* The contents of the quoted strings of a text: a backslash takes the next
\* character with it, into the argument inside quotes and to nowhere outside;
\* an unescaped quote opens or closes an argument.
RECURSIVE Between(_, _, _, _)
Between(s, args, current, inQuote) ==
    IF s = <<>> THEN args
    ELSE IF Head(s) = "\\"
    THEN IF Len(s) = 1 THEN args
         ELSE Between(Tail(Tail(s)), args,
                      IF inQuote THEN Append(current, s[2]) ELSE current, inQuote)
    ELSE IF Head(s) = "\""
    THEN IF inQuote THEN Between(Tail(s), Append(args, current), <<>>, FALSE)
         ELSE Between(Tail(s), args, <<>>, TRUE)
    ELSE Between(Tail(s), args, IF inQuote THEN Append(current, Head(s)) ELSE current,
                 inQuote)

\* C28: the arguments parseArguments returns are the contents of the quoted
\* strings of the payload with the escapes resolved: no character outside a pair
\* of quotes is in an argument, also after a backslash outside quotes, and a
\* quoted string that is not closed gives no argument.
C28_InsideQuotes ==
    ret.op = "parseArguments" => ret.args = Between(TrimSpace(ret.in), <<>>, <<>>, FALSE)

----------------------------------------------------------------------------
\* The texts of CallbackTemplates with two spans.
SeveralSpans == {t \in CallbackTemplates : Len(splitTemplateString(t)) > 3}

\* C29: ExecuteCallback of a text with several spans looks up the identifier of
\* the first span alone: the callback it returns is bound to the handler of that
\* action, an error it returns names that action, and neither it nor a call of
\* the callback invokes the validator or the handler of the action of a later
\* span; a call of the callback invokes one handler.
C29_OneCall ==
    [][/\ (Called("ExecuteCallback") /\ ret'.in \in SeveralSpans) =>
                LET first == Named(ret'.in) IN
                /\ ret'.err = NoErr =>
                      /\ Found(functions, first)
                      /\ returned'.fn = functions[first]
                /\ ret'.err # NoErr =>
                      /\ returned' = NoCallback
                      /\ ret'.err.name = first
                /\ \A i \in 1..Len(trace') : trace'[i].name = first
       /\ (Called("callback") /\ returned # EmptyCallback) =>
             /\ Len(trace') <= Len(trace) + 1
             /\ \A i \in (Len(trace) + 1)..Len(trace') :
                   trace'[i].name = returned.fn.Name]_vars

\* ExecuteCallback of "{{ foo "a" }}{{ noop }}" has returned a callback of foo,
\* noop being registered.
C29_Witness ==
    /\ ret.op = "ExecuteCallback"
    /\ ret.in \in SeveralSpans
    /\ Named(ret.in) = FooName
    /\ ret.err = NoErr
    /\ returned = createCallbackFromHandler(functions[FooName], << <<"a">> >>)
    /\ Found(functions, NoopName)

----------------------------------------------------------------------------
\* C27: every callback ExecuteCallback returns passes to the handler the
\* parameters the handler declares, the context and one string for each argument
\* of a fixed-arity action, the context and one list for a variadic action, and
\* no call of a callback fails.
C27_Dispatches ==
    /\ panicked.kind # "callback"
    /\ returned \notin {NoCallback, EmptyCallback} =>
          callArgs(returned.fn, returned.args) = returned.fn.Handler.in

----------------------------------------------------------------------------
\* C25: once the application has been stopped the background goroutine of Build
\* enqueues no further reconciliation pass.
C25_Cancellable == [][App = "stopped" => ~EnqueuesPass]_vars

----------------------------------------------------------------------------
----------------------------------------------------------------------------
\* Key bindings: keys.ParseKey and template.MatchesKeyBinding.

Lower ==
    <<"a", "b", "c", "d", "e", "f", "g", "h", "i", "j", "k", "l", "m", "n", "o", "p"
      , "q", "r", "s", "t", "u", "v", "w", "x", "y", "z">>

Upper ==
    <<"A", "B", "C", "D", "E", "F", "G", "H", "I", "J", "K", "L", "M", "N", "O", "P"
      , "Q", "R", "S", "T", "U", "V", "W", "X", "Y", "Z">>

\* The position of a character in a table, 0 when it is not there.
Position(table, c) ==
    IF \E i \in 1..Len(table) : table[i] = c
    THEN CHOOSE i \in 1..Len(table) : table[i] = c
    ELSE 0

\* The code point of a character of a key string: a letter, a digit or a space.
Ord(c) ==
    IF Position(Lower, c) > 0 THEN 96 + Position(Lower, c)
    ELSE IF Position(Upper, c) > 0 THEN 64 + Position(Upper, c)
    ELSE IF Position(Digits, c) > 0 THEN 47 + Position(Digits, c)
    ELSE CHOOSE n \in {32} : c = " "

\* strings.ToLower
ToLower(s) ==
    [i \in 1..Len(s) |->
        IF Position(Upper, s[i]) > 0 THEN Lower[Position(Upper, s[i])] ELSE s[i]]

\* unicode.ToLower and unicode.ToUpper of a rune
unicodeToLower(r) == IF r \in 65..90 THEN r + 32 ELSE r

unicodeToUpper(r) == IF r \in 97..122 THEN r - 32 ELSE r

RECURSIVE SplitParts(_, _, _, _)
SplitParts(s, sep, parts, current) ==
    IF s = <<>> THEN Append(parts, current)
    ELSE IF Head(s) = sep
         THEN SplitParts(Tail(s), sep, Append(parts, current), <<>>)
         ELSE SplitParts(Tail(s), sep, parts, Append(current, Head(s)))

\* strings.Split with a separator of one character
Split(s, sep) == SplitParts(s, sep, <<>>, <<>>)

\* A tcell.Key: a named key, or the function key KeyF1 + (n - 1).
Key(name) == [name |-> name, n |-> 0]

KeyF(n) == [name |-> "F", n |-> n]

KeyRune == Key("Rune")

\* A tcell.ModMask is the set of its bits: | is the union and & the intersection.
\* The values ParseKey returns; an error comes with zero values.
Parsed(key, mod, ch) == [key |-> key, mod |-> mod, ch |-> ch, err |-> NoErr]

ParseError(msg) == [key |-> Key("NUL"), mod |-> {}, ch |-> 0, err |-> [msg |-> msg]]

\* The modifier loop of ParseKey over parts[i..], a Go index.
RECURSIVE Modifiers(_, _, _)
Modifiers(parts, i, modMask) ==
    IF i >= Len(parts) - 1 THEN [mod |-> modMask, err |-> NoErr]
    ELSE LET mod == ToLower(TrimSpace(parts[i + 1])) IN
         IF mod \in {<<"c", "t", "r", "l">>, <<"c", "o", "n", "t", "r", "o", "l">>}
         THEN Modifiers(parts, i + 1, modMask \cup {"Ctrl"})
         ELSE IF mod = <<"a", "l", "t">>
         THEN Modifiers(parts, i + 1, modMask \cup {"Alt"})
         ELSE IF mod = <<"m", "e", "t", "a">>
         THEN Modifiers(parts, i + 1, modMask \cup {"Meta"})
         ELSE IF mod = <<"s", "h", "i", "f", "t">>
         THEN Modifiers(parts, i + 1, modMask \cup {"Shift"})
         ELSE [mod |-> {}, err |-> [msg |-> "unknown modifier"]]

specialKeys ==
    {[name |-> <<"e", "s", "c", "a", "p", "e">>, key |-> Key("Escape")],
     [name |-> <<"e", "s", "c">>, key |-> Key("Escape")],
     [name |-> <<"e", "n", "t", "e", "r">>, key |-> Key("Enter")],
     [name |-> <<"r", "e", "t", "u", "r", "n">>, key |-> Key("Enter")],
     [name |-> <<"t", "a", "b">>, key |-> Key("Tab")],
     [name |-> <<"b", "a", "c", "k", "t", "a", "b">>, key |-> Key("Backtab")],
     [name |-> <<"b", "a", "c", "k", "s", "p", "a", "c", "e">>, key |-> Key("Backspace")],
     [name |-> <<"b", "s">>, key |-> Key("Backspace")],
     [name |-> <<"d", "e", "l", "e", "t", "e">>, key |-> Key("Delete")],
     [name |-> <<"d", "e", "l">>, key |-> Key("Delete")],
     [name |-> <<"i", "n", "s", "e", "r", "t">>, key |-> Key("Insert")],
     [name |-> <<"i", "n", "s">>, key |-> Key("Insert")],
     [name |-> <<"u", "p">>, key |-> Key("Up")],
     [name |-> <<"d", "o", "w", "n">>, key |-> Key("Down")],
     [name |-> <<"l", "e", "f", "t">>, key |-> Key("Left")],
     [name |-> <<"r", "i", "g", "h", "t">>, key |-> Key("Right")],
     [name |-> <<"h", "o", "m", "e">>, key |-> Key("Home")],
     [name |-> <<"e", "n", "d">>, key |-> Key("End")],
     [name |-> <<"p", "g", "u", "p">>, key |-> Key("PgUp")],
     [name |-> <<"p", "a", "g", "e", "u", "p">>, key |-> Key("PgUp")],
     [name |-> <<"p", "g", "d", "n">>, key |-> Key("PgDn")],
     [name |-> <<"p", "a", "g", "e", "d", "o", "w", "n">>, key |-> Key("PgDn")]}

RECURSIVE DigitRun(_)
DigitRun(s) == IF s # <<>> /\ Position(Digits, Head(s)) > 0 THEN 1 + DigitRun(Tail(s)) ELSE 0

RECURSIVE Atoi(_)
Atoi(s) == IF s = <<>> THEN 0
           ELSE 10 * Atoi(SubSeq(s, 1, Len(s) - 1)) + Position(Digits, s[Len(s)]) - 1

\* fmt.Sscanf(str, lit + "%d", &fNum) for a literal lit of one character: the
\* literal, an optional sign and the digits that follow; what comes after the
\* digits is not read.
Sscanf(str, lit) ==
    IF str = <<>> \/ Head(str) # lit THEN [err |-> TRUE, fNum |-> 0]
    ELSE LET rest   == Tail(str)
             signed == rest # <<>> /\ Head(rest) \in {"+", "-"}
             body   == IF signed THEN Tail(rest) ELSE rest
             n      == DigitRun(body)
         IN  IF n = 0 THEN [err |-> TRUE, fNum |-> 0]
             ELSE [err |-> FALSE,
                   fNum |-> IF signed /\ Head(rest) = "-"
                            THEN 0 - Atoi(SubSeq(body, 1, n))
                            ELSE Atoi(SubSeq(body, 1, n))]

\* The function-key branch of ParseKey: the number read, 0 when none is.
FunctionKey(keyPart) ==
    LET upper == Sscanf(keyPart, "F")
        scan  == IF upper.err THEN Sscanf(keyPart, "f") ELSE upper
    IN  IF ~scan.err /\ scan.fNum >= 1 /\ scan.fNum <= 12 THEN scan.fNum ELSE 0

\* keys.ParseKey
ParseKey(keyStr0) ==
    LET keyStr == TrimSpace(keyStr0) IN
    IF keyStr = <<>> THEN ParseError("empty key string")
    ELSE LET parts    == Split(keyStr, "+")
             mods     == Modifiers(parts, 0, {})
             keyPart  == TrimSpace(parts[Len(parts)])
             keyLower == ToLower(keyPart)
             special  == {p \in specialKeys : p.name = keyLower}
         IN  IF mods.err # NoErr THEN ParseError(mods.err.msg)
             ELSE IF special # {}
             THEN Parsed((CHOOSE p \in special : TRUE).key, mods.mod, 0)
             ELSE IF keyLower = <<"s", "p", "a", "c", "e">>
             THEN Parsed(KeyRune, mods.mod, 32)
             ELSE IF HasPrefix(keyLower, <<"f">>) /\ Len(keyPart) > 1
                     /\ FunctionKey(keyPart) > 0
             THEN Parsed(KeyF(FunctionKey(keyPart)), mods.mod, 0)
             ELSE IF Len(keyPart) = 1
             THEN Parsed(KeyRune, mods.mod, Ord(keyPart[1]))
             ELSE ParseError("unknown key")

Tracked_NoMeta == {"Ctrl"} \cup {"Alt"} \cup {"Shift"}

\* tcell.{"Ctrl"} | tcell.{"Alt"} | tcell.{"Shift"} | tcell.{"Meta"}
Tracked == {"Ctrl"} \cup {"Alt"} \cup {"Shift"} \cup {"Meta"}

CtrlLower_CodeOnly(eventRune, ch) == eventRune = ch - 97 + 1

\* The runes a binding of Ctrl and a lower-case letter accepts.
CtrlLower(eventRune, ch) ==
    LET ctrlRune == ch - 97 + 1 IN eventRune = ctrlRune \/ eventRune = ch

\* The runes a binding of Ctrl and an upper-case letter accepts.
CtrlUpper(eventRune, ch) ==
    LET ctrlRune == ch - 65 + 1
    IN  eventRune = ctrlRune \/ eventRune = ch \/ eventRune = unicodeToLower(ch)

\* A key event is what its accessors return: Key(), Rune() and Modifiers().
NewEventKey(key, ch, mod) == [key |-> key, ch |-> ch, mod |-> mod]

\* config.KeyBinding
KeyBinding(keyStr) == [Key |-> keyStr]

MatchesKeyBinding(event, binding) ==
    LET p         == ParseKey(binding.Key)
        key       == p.key
        mod       == p.mod
        ch        == p.ch
        eventMod  == event.mod
        eventKey  == event.key
        eventRune == event.ch
        wantMod   == mod \cap Tracked
        gotMod    == eventMod \cap Tracked
    IN  IF p.err # NoErr THEN FALSE
        ELSE IF key = KeyRune /\ ch = 0 THEN FALSE
        ELSE IF wantMod # gotMod THEN FALSE
        ELSE IF key = KeyRune
        THEN IF eventKey # KeyRune THEN FALSE
             ELSE IF mod \cap {"Ctrl"} # {} /\ ch >= 97 /\ ch <= 122
             THEN CtrlLower(eventRune, ch)
             ELSE IF mod \cap {"Ctrl"} # {} /\ ch >= 65 /\ ch <= 90
             THEN CtrlUpper(eventRune, ch)
             ELSE \/ eventRune = ch
                  \/ eventRune = unicodeToLower(ch)
                  \/ eventRune = unicodeToUpper(ch)
        ELSE eventKey = key

----------------------------------------------------------------------------
\* The events and the bindings MatchesKeyBinding is applied to.

\* A modifier bit outside the four the matcher compares.
ModOther == {"Bit4"}

ModMasks == SUBSET ({"Shift"} \cup {"Ctrl"} \cup {"Alt"} \cup {"Meta"} \cup ModOther)

\* The runes of key events: the control codes, the letters and the space.
EventRunes == (1..26) \cup (65..90) \cup (97..122) \cup {32}

EventKeys == {Key("Escape"), Key("Enter"), Key("Tab"), KeyF(1), KeyF(12)}

Events ==
    {NewEventKey(KeyRune, ch, mod) : ch \in EventRunes, mod \in ModMasks}
        \cup {NewEventKey(key, 0, mod) : key \in EventKeys, mod \in ModMasks}

Letters == {<<Lower[i]>> : i \in 1..26} \cup {<<Upper[i]>> : i \in 1..26}

\* The modifier words before the key of a binding
ModifierWords ==
    {<<>>, <<<<"C", "t", "r", "l">>>>, <<<<"C", "o", "n", "t", "r", "o", "l">>>>, <<<<"A", "l", "t">>>>,
     <<<<"S", "h", "i", "f", "t">>>>, <<<<"M", "e", "t", "a">>>>,
     <<<<"C", "t", "r", "l">>, <<"A", "l", "t">>>>, <<<<"C", "t", "r", "l">>, <<"S", "h", "i", "f", "t">>>>,
     <<<<"I", "n", "v", "a", "l", "i", "d">>>>}

KeyWords ==
    {<<"q">>, <<"Q">>, <<"E", "s", "c", "a", "p", "e">>, <<"E", "n", "t", "e", "r">>, <<"T", "a", "b">>,
     <<"F", "1">>, <<"f", "1", "2">>, <<"F", "1", "3">>, <<"F", "1", "x">>, <<"s", "p", "a", "c", "e">>,
     <<>>, <<"I", "n", "v", "a", "l", "i", "d", "K", "e", "y">>}

\* A binding as the words its key string is made of
BindingWords ==
    [mods : {<<<<"C", "t", "r", "l">>>>}, key : Letters]
        \cup [mods : ModifierWords, key : KeyWords]

\* The key string of a binding: its words joined by "+".
RECURSIVE KeyString(_)
KeyString(b) ==
    IF b.mods = <<>> THEN b.key
    ELSE Head(b.mods) \o <<"+">> \o KeyString([b EXCEPT !.mods = Tail(@)])

KeyInit ==
    /\ functions = NewFunctionRegistry.functions
    /\ evaluators = NewFunctionRegistry.evaluators
    /\ \E e \in Events, b \in BindingWords :
          ret = [op |-> "input", event |-> e, binding |-> b]
    /\ returned = NoCallback
    /\ trace = <<>>
    /\ logged = 0
    /\ built = "none"
    /\ ops = 0
    /\ App = "nil"
    /\ boundViews = [k \in Keys |-> <<>>]
    /\ subscribers = [k \in Keys |-> <<>>]
    /\ formSubmitCallbacks = [n \in FormNames |-> "nil"]
    /\ formCancelCallbacks = [n \in FormNames |-> "nil"]
    /\ executor = TRUE
    /\ state = [k \in Keys |-> IF k = "k1" THEN StringValue(<<"v">>) ELSE Nil]
    /\ dirtyKeys = {}
    /\ mu = [w |-> "none", r |-> {}]
    /\ updates = <<>>
    /\ running = NoUpdate
    /\ done = {}
    /\ outer = [t \in Threads |-> Idle]
    /\ cb = [t \in Threads |-> NoCb]
    /\ inner = [t \in Threads |-> None]
    /\ result = [t \in Threads |-> NoResult]
    /\ pass = EmptyPass
    /\ log = <<>>
    /\ pending = [k \in Keys |-> <<>>]
    /\ panicked = NoPanic
    /\ calls = 0

MatchKey ==
    /\ ret.op = "input"
    /\ ret' = [op |-> "MatchesKeyBinding", event |-> ret.event, binding |-> ret.binding,
               out |-> MatchesKeyBinding(ret.event, KeyBinding(KeyString(ret.binding)))]
    /\ UNCHANGED <<contextVars, panicked, functions, evaluators, returned, trace, logged,
                   built, ops>>

KeyNext == MatchKey

KeySpec == KeyInit /\ [][KeyNext]_vars

----------------------------------------------------------------------------
\* The letter a binding names, as its position in the alphabet, 0 for a
\* binding whose key is not one letter.
LetterOf(b) ==
    IF Len(b.key) # 1 THEN 0
    ELSE IF Position(Lower, b.key[1]) > 0 THEN Position(Lower, b.key[1])
    ELSE Position(Upper, b.key[1])

IsUpper(b) == Len(b.key) = 1 /\ Position(Upper, b.key[1]) > 0

CtrlWord == <<"C", "t", "r", "l">>

Matched == ret.op = "MatchesKeyBinding"

WantBits(b) ==
    {"Ctrl" : i \in {i \in 1..Len(b.mods) :
                        b.mods[i] \in {CtrlWord, <<"C", "o", "n", "t", "r", "o", "l">>}}}
        \cup {"Alt" : i \in {i \in 1..Len(b.mods) : b.mods[i] = <<"A", "l", "t">>}}
        \cup {"Shift" : i \in {i \in 1..Len(b.mods) : b.mods[i] = <<"S", "h", "i", "f", "t">>}}
        \cup {"Meta" : i \in {i \in 1..Len(b.mods) : b.mods[i] = <<"M", "e", "t", "a">>}}

TrackedBits == {"Ctrl", "Alt", "Shift", "Meta"}

\* The event with one modifier bit flipped
Flip(e, bit) ==
    [e EXCEPT !.mod = IF bit \in @ THEN @ \ {bit} ELSE @ \cup {bit}]

\* C24: MatchesKeyBinding is false whenever the Ctrl, Alt, Shift and Meta bits
\* of the event are not the ones the binding asks for, one missing or one too
\* many, and its result stays the same when a bit of the event other than these
\* four is flipped.
C24_TrackedModifiers ==
    Matched =>
        /\ ret.event.mod \cap TrackedBits # WantBits(ret.binding) => ~ret.out
        /\ \A bit \in ModOther :
              ret.out = MatchesKeyBinding(Flip(ret.event, bit),
                                          KeyBinding(KeyString(ret.binding)))

\* "Ctrl+Alt+Q" has not matched the rune event q that carries Ctrl, Alt, Shift
\* and a bit the matcher does not track.
C24_Witness ==
    /\ Matched
    /\ ret.binding = [mods |-> <<CtrlWord, <<"A", "l", "t">> >>, key |-> <<"Q">>]
    /\ ret.event = NewEventKey(KeyRune, 113, {"Ctrl", "Alt", "Shift", "Bit4"})
    /\ ~ret.out

\* C30: with Ctrl asked for, the case of the letter of the binding does not
\* change what is matched: "Ctrl+x" and "Ctrl+X" give the same result for every
\* key event.
C30_CaseInsensitive ==
    (/\ Matched
     /\ ret.binding.mods = <<CtrlWord>>
     /\ LetterOf(ret.binding) > 0
     /\ ~IsUpper(ret.binding)) =>
        ret.out = MatchesKeyBinding(ret.event,
                      KeyBinding(CtrlWord \o <<"+", Upper[LetterOf(ret.binding)]>>))

====
